---- MODULE Spec2Model ----
(***************************************************************************)
(* LSNP peer protocol engine (src/src/lsnp): the tic-tac-toe game table     *)
(* (tictactoe.py), the node's handlers of inbound game records, the         *)
(* file-transfer reassembly buffer and the presence loop (node.py), the     *)
(* store of peers, posts, direct messages and groups (state.py), the        *)
(* threads that share them (transport.py, cli.py), the text codec           *)
(* (messages.py) and the path of a datagram from _on_udp to its handler.    *)
(*                                                                          *)
(* Python values are represented as follows.  A str is a TLA+ string.  A    *)
(* list is a sequence, so the 0-based index i of the code is i + 1 here.    *)
(* None is the string "None" where the field otherwise holds a str          *)
(* (winner) and the empty sequence where it otherwise holds a number or a   *)
(* list (winning_line, total_chunks, save_path hold <<>> or <<value>> /     *)
(* the list).  A wire field that the code passes to int() is a string       *)
(* and int() is the table IntOf, partial as int() is.                       *)
(***************************************************************************)
EXTENDS Integers, Sequences, FiniteSets, TLC

VARIABLES
    games,        \* TicTacToeManager.games: game_id -> TicTacToeGame
    accepted,     \* history: per game id, the make_move calls accepted since create_game
                  \* made the game (or a MOVE_RESPONSE record overwrote it)
    lastOp,       \* history: the operation of the last step and how it ended
    rxAlive,      \* the receive thread is still running (no handler has raised)
    outbox,       \* the datagrams the last step sent, in the order it sent them
    fileBuffers,  \* Node._file_buffers: file_id -> buffer
    disk,         \* the files _handle_file_chunk has written, in the order written
    notified,     \* history: per file id, the FILE_RECEIVED records sent
    delivered,    \* history: the chunks delivered in the three-chunk transfer
    peers,        \* LSNPState.peers: user_id -> Peer
    peerOrder,    \* the keys of LSNPState.peers in the order the dict holds them
    posts,        \* LSNPState.posts
    dms,          \* LSNPState.dms
    groups,       \* LSNPState.groups: group_id -> name and member set
    clock,        \* time.time()
    lock,         \* Node._lock: the thread inside `with self._lock`, or "None"
    pc,           \* where each thread of the process stands
    local,        \* what each thread holds in its local variables
    presence      \* _last_profile_sent, the loop's last_tick, and (history) the
                  \* kinds of the broadcasts the presence loop has sent

gameState == <<games, accepted>>
fileState == <<fileBuffers, disk, notified, delivered>>
storeState == <<peers, peerOrder, posts, dms, groups, clock>>
threadState == <<lock, pc, local, presence>>
vars == <<games, accepted, lastOp, rxAlive, outbox, fileBuffers, disk, notified, delivered,
          peers, peerOrder, posts, dms, groups, clock, lock, pc, local, presence>>

----------------------------------------------------------------------------
(* Bounds and input sets *)

\* Node.user_id of the node that is modelled
Self == "alice"
\* identities that appear as a game's players
Players == {"alice", "bob"}
\* identities that appear as FROM / player
Users == Players \cup {"carol"}
GameIds == {"g1"}
\* the threads of the process: the one that runs the command (cli.main), the
\* receive thread (UDPTransport.start) and the presence thread (Node.start)
Threads == {"main", "rx", "presence"}
FileIds == {"f1"}
\* the strings int() accepts here, with their values; int() raises ValueError
\* on every other string
IntOf == ("-1" :> -1) @@ ("0" :> 0) @@ ("1" :> 1) @@ ("2" :> 2) @@ ("3" :> 3) @@
         ("4" :> 4) @@ ("5" :> 5) @@ ("6" :> 6) @@ ("7" :> 7) @@ ("8" :> 8) @@
         ("9" :> 9) @@ ("10" :> 10) @@ ("11" :> 11) @@ ("12" :> 12)
IsNumeral(s) == s \in DOMAIN IntOf
\* str() of a number of the table
StrOf(n) == CHOOSE s \in DOMAIN IntOf : IntOf[s] = n
\* symbol strings: the two of the protocol and one other string
Symbols == {"X", "O", "Z"}
\* position arguments: 0..8 and one value beyond each end
Positions == -1 .. 9

----------------------------------------------------------------------------
(* Helpers for Python dicts *)

Put(d, k, v) == [x \in (DOMAIN d) \cup {k} |-> IF x = k THEN v ELSE d[x]]
Del(d, k) == [x \in (DOMAIN d) \ {k} |-> d[x]]
EmptyDict == [x \in {} |-> 0]

----------------------------------------------------------------------------
(* tictactoe.py *)

EmptyBoard == [i \in 1 .. 9 |-> ""]

\* TicTacToeGame as create_game constructs it
TicTacToeGame(game_id, inviter, invitee, inviter_symbol, invitee_symbol) ==
    [ game_id        |-> game_id,
      player1        |-> inviter,
      player2        |-> invitee,
      player1_symbol |-> inviter_symbol,
      player2_symbol |-> invitee_symbol,
      board          |-> EmptyBoard,
      current_turn   |-> 1,
      whose_turn     |-> IF inviter_symbol = "X" THEN inviter ELSE invitee,
      started        |-> FALSE,
      finished       |-> FALSE,
      winner         |-> "None",
      winning_line   |-> <<>> ]

\* create_game: the new game table (the entry for game_id is replaced)
create_game(gs, game_id, inviter, invitee, inviter_symbol) ==
    LET invitee_symbol == IF inviter_symbol = "X" THEN "O" ELSE "X"
    IN  Put(gs, game_id,
            TicTacToeGame(game_id, inviter, invitee, inviter_symbol, invitee_symbol))

\* the winning lines of _check_winner, in the order the loop visits them
lines == << <<0, 1, 2>>, <<3, 4, 5>>, <<6, 7, 8>>,
            <<0, 3, 6>>, <<1, 4, 7>>, <<2, 5, 8>>,
            <<0, 4, 8>>, <<2, 4, 6>> >>

\* the loop of _check_winner from the k-th line on.  board[i] raises IndexError
\* when the list is shorter than the line needs.
RECURSIVE scan_lines(_, _)
scan_lines(board, k) ==
    IF k > Len(lines)
    THEN IF \A i \in 1 .. Len(board) : board[i] # ""
         THEN [raised |-> FALSE, winner |-> "DRAW", line |-> <<>>]
         ELSE [raised |-> FALSE, winner |-> "None", line |-> <<>>]
    ELSE LET line == lines[k]
         IN  IF \E j \in 1 .. 3 : line[j] >= Len(board)
             THEN [raised |-> TRUE, winner |-> "None", line |-> <<>>]
             ELSE IF /\ board[line[1] + 1] # ""
                     /\ board[line[1] + 1] = board[line[2] + 1]
                     /\ board[line[2] + 1] = board[line[3] + 1]
                  THEN [raised |-> FALSE, winner |-> board[line[1] + 1], line |-> line]
                  ELSE scan_lines(board, k + 1)

\* a _check_winner that forgets the anti-diagonal
check_winner_NoAntiDiagonal(board) ==
    LET r == scan_lines(board, 1)
    IN  IF r.line = <<2, 4, 6>>
        THEN IF \A i \in 1 .. Len(board) : board[i] # ""
             THEN [raised |-> FALSE, winner |-> "DRAW", line |-> <<>>]
             ELSE [raised |-> FALSE, winner |-> "None", line |-> <<>>]
        ELSE r

\* _check_winner: (winner symbol | "DRAW" | None, winning line | None)
check_winner(board) == scan_lines(board, 1)

\* make_move's result: status is "ok" (True, ...), "fail" (False, ...) or
\* "raise" (an IndexError left the method); games is the table afterwards
MoveResult(status, message, gs) == [status |-> status, message |-> message, games |-> gs]

\* an accepted branch that names the game's creator as the winner of every win
apply_move_CreatorWins(gs, game_id, player, position, symbol) ==
    LET game  == gs[game_id]
        moved == [game EXCEPT !.board[position + 1] = symbol,
                              !.current_turn = @ + 1,
                              !.started = TRUE,
                              !.whose_turn = IF player = game.player1
                                             THEN game.player2 ELSE game.player1]
        w     == check_winner(moved.board)
    IN  IF w.raised
        THEN MoveResult("raise", "IndexError", Put(gs, game_id, moved))
        ELSE IF w.winner = "None"
        THEN MoveResult("ok", "Move successful", Put(gs, game_id, moved))
        ELSE IF w.winner = "DRAW"
        THEN MoveResult("ok", "Move successful",
                 Put(gs, game_id, [moved EXCEPT !.finished = TRUE, !.winner = "DRAW"]))
        ELSE MoveResult("ok", "Move successful",
                 Put(gs, game_id,
                     [moved EXCEPT !.finished = TRUE,
                                   !.winner = game.player1,
                                   !.winning_line = w.line]))

\* the accepted branch of make_move (lines 85-104)
apply_move(gs, game_id, player, position, symbol) ==
    LET game  == gs[game_id]
        moved == [game EXCEPT !.board[position + 1] = symbol,
                              !.current_turn = @ + 1,
                              !.started = TRUE,
                              !.whose_turn = IF player = game.player1
                                             THEN game.player2 ELSE game.player1]
        w     == check_winner(moved.board)
    IN  IF w.raised
        THEN MoveResult("raise", "IndexError", Put(gs, game_id, moved))
        ELSE IF w.winner = "None"
        THEN MoveResult("ok", "Move successful", Put(gs, game_id, moved))
        ELSE IF w.winner = "DRAW"
        THEN MoveResult("ok", "Move successful",
                 Put(gs, game_id, [moved EXCEPT !.finished = TRUE, !.winner = "DRAW"]))
        ELSE MoveResult("ok", "Move successful",
                 Put(gs, game_id,
                     [moved EXCEPT !.finished = TRUE,
                                   !.winner = IF w.winner = game.player1_symbol
                                              THEN game.player1 ELSE game.player2,
                                   !.winning_line = w.line]))

\* a make_move that does not look at the finished flag
make_move_NoFinishedCheck(gs, game_id, player, position, symbol, turn) ==
    IF game_id \notin DOMAIN gs THEN MoveResult("fail", "Game not found", gs)
    ELSE LET game == gs[game_id]
             expected_symbol == IF player = game.player1 THEN game.player1_symbol
                                ELSE game.player2_symbol
         IN  IF player \notin {game.player1, game.player2}
                 THEN MoveResult("fail", "Player not in this game", gs)
             ELSE IF player # game.whose_turn THEN MoveResult("fail", "Not your turn", gs)
             ELSE IF turn # game.current_turn THEN MoveResult("fail", "Invalid turn number", gs)
             ELSE IF symbol # expected_symbol THEN MoveResult("fail", "Wrong symbol", gs)
             ELSE IF position < 0 \/ position > 8 THEN MoveResult("fail", "Invalid position", gs)
             ELSE IF position >= Len(game.board) THEN MoveResult("raise", "IndexError", gs)
             ELSE IF game.board[position + 1] # ""
                 THEN MoveResult("fail", "Position already occupied", gs)
             ELSE apply_move(gs, game_id, player, position, symbol)

\* a make_move that counts the turn before it validates the move
make_move_CountsRejected(gs, game_id, player, position, symbol, turn) ==
    LET r == make_move_NoFinishedCheck(gs, game_id, player, position, symbol, turn)
    IN  IF game_id \in DOMAIN gs /\ gs[game_id].finished
            THEN MoveResult("fail", "Game already finished", gs)
        ELSE IF r.status = "fail" /\ game_id \in DOMAIN gs
            THEN MoveResult("fail", r.message,
                     Put(gs, game_id, [gs[game_id] EXCEPT !.current_turn = @ + 1]))
        ELSE r

\* make_move (lines 53-104)
make_move(gs, game_id, player, position, symbol, turn) ==
    IF game_id \notin DOMAIN gs THEN MoveResult("fail", "Game not found", gs)
    ELSE LET game == gs[game_id]
             expected_symbol == IF player = game.player1 THEN game.player1_symbol
                                ELSE game.player2_symbol
         IN  IF game.finished THEN MoveResult("fail", "Game already finished", gs)
             ELSE IF player \notin {game.player1, game.player2}
                 THEN MoveResult("fail", "Player not in this game", gs)
             ELSE IF player # game.whose_turn THEN MoveResult("fail", "Not your turn", gs)
             ELSE IF turn # game.current_turn THEN MoveResult("fail", "Invalid turn number", gs)
             ELSE IF symbol # expected_symbol THEN MoveResult("fail", "Wrong symbol", gs)
             ELSE IF position < 0 \/ position > 8 THEN MoveResult("fail", "Invalid position", gs)
             ELSE IF position >= Len(game.board) THEN MoveResult("raise", "IndexError", gs)
             ELSE IF game.board[position + 1] # ""
                 THEN MoveResult("fail", "Position already occupied", gs)
             ELSE apply_move(gs, game_id, player, position, symbol)

\* remove_game
remove_game(gs, game_id) == IF game_id \in DOMAIN gs THEN Del(gs, game_id) ELSE gs

----------------------------------------------------------------------------
(* The game table driven through the manager's own interface *)

Init ==
    /\ games = EmptyDict
    /\ accepted = [g \in GameIds |-> 0]
    /\ lastOp = [op |-> "init", id |-> "", status |-> "ok"]
    /\ rxAlive = TRUE
    /\ outbox = <<>>
    /\ fileBuffers = EmptyDict
    /\ disk = <<>>
    /\ notified = [f \in FileIds |-> 0]
    /\ delivered = <<>>
    /\ peers = EmptyDict
    /\ peerOrder = <<>>
    /\ posts = <<>>
    /\ dms = <<>>
    /\ groups = EmptyDict
    /\ clock = 0
    /\ lock = "None"
    /\ pc = [t \in Threads |-> "init"]
    /\ local = [t \in Threads |-> <<>>]
    /\ presence = [last_profile_sent |-> 0, last_tick |-> <<>>, sent |-> <<>>]

\* the turn numbers a caller presents: the game's current one or the one before
\* it (a stale or repeated move); a game the table does not hold counts as new
TurnArgs(gs, g) == IF g \in DOMAIN gs THEN {gs[g].current_turn, gs[g].current_turn - 1}
                   ELSE {1, 0}

\* create_game as the node's handlers call it: Self is one of the two players
CreateGame ==
    \E g \in GameIds, inviter \in Players, invitee \in Players, s \in Symbols :
        /\ Self \in {inviter, invitee}
        /\ games' = create_game(games, g, inviter, invitee, s)
        /\ accepted' = [accepted EXCEPT ![g] = 0]
        /\ lastOp' = [op |-> "create_game", id |-> g, status |-> "ok"]
        /\ UNCHANGED <<rxAlive, outbox, fileState, storeState, threadState>>

MakeMove ==
    \E g \in GameIds, p \in Users, pos \in Positions, s \in Symbols :
      \E t \in TurnArgs(games, g) :
        \E r \in {make_move(games, g, p, pos, s, t)} :
            /\ games' = r.games
            /\ accepted' = IF r.status = "ok"
                           THEN [accepted EXCEPT ![g] = @ + 1] ELSE accepted
            /\ lastOp' = [op |-> "make_move", id |-> g, status |-> r.status]
            /\ UNCHANGED <<rxAlive, outbox, fileState, storeState, threadState>>

NextGame == CreateGame \/ MakeMove

SpecGame == Init /\ [][NextGame]_vars

----------------------------------------------------------------------------
(* node.py: the handlers of inbound game records *)

\* format_board reads board[0] .. board[8]: it raises IndexError on a shorter list
format_board_raises(gs, game_id) == game_id \in DOMAIN gs /\ Len(gs[game_id].board) < 9

\* the record send_tictactoe_move_response sends
MoveResponseMsg(to_user, game) ==
    [ type |-> "TICTACTOE_MOVE_RESPONSE", to |-> to_user, gameid |-> game.game_id,
      board |-> game.board, current_turn |-> game.current_turn,
      whose_turn |-> game.whose_turn, finished |-> game.finished,
      winner |-> game.winner ]

\* the record send_tictactoe_result sends, with the arguments of lines 316-322
ResultMsg(from_user, game) ==
    [ type |-> "TICTACTOE_RESULT", to |-> from_user, gameid |-> game.game_id,
      result |-> IF game.winner = Self THEN "WIN"
                 ELSE IF game.winner = from_user THEN "LOSS" ELSE "DRAW",
      symbol |-> IF Self = game.player1 THEN game.player1_symbol
                 ELSE game.player2_symbol,
      winning_line |-> game.winning_line ]

\* how a handler ended: status is "ok" (the record took effect), "fail" (make_move
\* rejected the move), "drop" (the handler returned early) or "raise" (an
\* exception left the handler); moved says that a make_move call returned True
Handled(status, gs, moved, out) ==
    [status |-> status, games |-> gs, moved |-> moved, out |-> out]

\* lines 292-329: what follows the make_move call, whose result is r
after_make_move(r, from_user, game_id) ==
    IF r.status = "raise" THEN Handled("raise", r.games, FALSE, <<>>)
    ELSE IF r.status = "fail" THEN Handled("fail", r.games, FALSE, <<>>)
    ELSE IF format_board_raises(r.games, game_id)
        THEN Handled("raise", r.games, TRUE, <<>>)
    ELSE LET game == r.games[game_id]
             response == IF from_user # Self
                         THEN <<MoveResponseMsg(from_user, game)>> ELSE <<>>
             result == IF game.finished THEN <<ResultMsg(from_user, game)>> ELSE <<>>
         IN  Handled("ok", r.games, TRUE, response \o result)

\* how _handle_tictactoe_move comes to its make_move call: end is "call" with
\* the arguments position, symbol and turn it passes, "drop" (a return of lines
\* 264-277) or "raise" (int() raised ValueError)
MoveArguments(end, position, symbol, turn) ==
    [end |-> end, position |-> position, symbol |-> symbol, turn |-> turn]

\* a resolution that replaces the symbol only where the record says AUTO
move_arguments_KeepsSymbol(gs, from_user, game_id, position_s, symbol_in, turn_s) ==
    IF ~IsNumeral(position_s) THEN MoveArguments("raise", 0, "", 0)
    ELSE
    LET position == IntOf[position_s]
        known    == game_id \in DOMAIN gs
        auto     == symbol_in = "AUTO" \/ turn_s = "AUTO"
    IN  IF auto /\ ~known THEN MoveArguments("drop", 0, "", 0)
        ELSE IF auto /\ from_user \notin {gs[game_id].player1, gs[game_id].player2}
            THEN MoveArguments("drop", 0, "", 0)
        ELSE IF ~auto /\ ~IsNumeral(turn_s) THEN MoveArguments("raise", 0, "", 0)
        ELSE MoveArguments("call", position,
                 IF symbol_in # "AUTO" THEN symbol_in
                 ELSE IF from_user = gs[game_id].player1
                      THEN gs[game_id].player1_symbol
                      ELSE gs[game_id].player2_symbol,
                 IF auto THEN gs[game_id].current_turn ELSE IntOf[turn_s])

\* _handle_tictactoe_move, lines 255-280: the fields are read and AUTO is resolved
move_arguments(gs, from_user, game_id, position_s, symbol_in, turn_s) ==
    IF ~IsNumeral(position_s) THEN MoveArguments("raise", 0, "", 0)
    ELSE
    LET position == IntOf[position_s]
        known    == game_id \in DOMAIN gs
        auto     == symbol_in = "AUTO" \/ turn_s = "AUTO"
    IN  IF auto /\ ~known THEN MoveArguments("drop", 0, "", 0)
        ELSE IF auto /\ from_user \notin {gs[game_id].player1, gs[game_id].player2}
            THEN MoveArguments("drop", 0, "", 0)
        ELSE IF ~auto /\ ~IsNumeral(turn_s) THEN MoveArguments("raise", 0, "", 0)
        ELSE MoveArguments("call", position,
                 IF ~auto THEN symbol_in
                 ELSE IF from_user = gs[game_id].player1
                      THEN gs[game_id].player1_symbol
                      ELSE gs[game_id].player2_symbol,
                 IF auto THEN gs[game_id].current_turn ELSE IntOf[turn_s])

\* _handle_tictactoe_move (lines 253-329)
handle_tictactoe_move(gs, from_user, game_id, position_s, symbol_in, turn_s) ==
    LET a == move_arguments(gs, from_user, game_id, position_s, symbol_in, turn_s)
    IN  IF a.end # "call" THEN Handled(a.end, gs, FALSE, <<>>)
        ELSE
        LET our_symbol == IF a.symbol = "X" THEN "O" ELSE "X"
            gs1 == IF game_id \in DOMAIN gs THEN gs
                   ELSE create_game(gs, game_id, Self, from_user, our_symbol)
        IN  after_make_move(make_move(gs1, game_id, from_user, a.position, a.symbol, a.turn),
                            from_user, game_id)

\* _handle_tictactoe_move_response (lines 331-359); board is BOARD split at ","
handle_tictactoe_move_response(gs, from_user, game_id, board, current_turn_s, whose_turn, finished_s, winner) ==
    IF ~IsNumeral(current_turn_s) THEN Handled("raise", gs, FALSE, <<>>)
    ELSE
    LET gs1  == IF game_id \in DOMAIN gs THEN gs
                ELSE create_game(gs, game_id, Self, from_user, "X")
        game == [gs1[game_id] EXCEPT
                    !.board = board,
                    !.current_turn = IntOf[current_turn_s],
                    !.whose_turn = whose_turn,
                    !.finished = (finished_s = "true"),
                    !.winner = IF winner # "" THEN winner ELSE @]
        gs2  == Put(gs1, game_id, game)
    IN  IF format_board_raises(gs2, game_id) THEN Handled("raise", gs2, FALSE, <<>>)
        ELSE Handled("ok", gs2, FALSE, <<>>)

\* _handle_tictactoe_invite (lines 361-381)
handle_tictactoe_invite(gs, from_user, game_id, symbol) ==
    Handled("ok", create_game(gs, game_id, from_user, Self, symbol), FALSE, <<>>)

\* _handle_tictactoe_result (lines 383-395)
handle_tictactoe_result(gs, from_user, game_id) ==
    IF game_id \notin DOMAIN gs THEN Handled("drop", gs, FALSE, <<>>)
    ELSE IF format_board_raises(gs, game_id) THEN Handled("raise", gs, FALSE, <<>>)
    ELSE Handled("ok", remove_game(gs, game_id), FALSE, <<>>)

----------------------------------------------------------------------------
(* The node receiving game records: one step is _on_udp handling one datagram *)

\* POSITION values: not a numeral, beyond each end of the board, and five cells (enough for
\* a game played to a win: X on 0, 1, 2 and O on 3, 4)
MovePositions == {"x", "-1", "9", "0", "1", "2", "3", "4"}
\* SYMBOL values of a TICTACTOE_MOVE
MoveSymbols == Symbols \cup {"AUTO"}
\* TURN values: the numerals of TurnArgs, the sentinel, and not a numeral
MoveTurns(gs, g) == {StrOf(t) : t \in TurnArgs(gs, g)} \cup {"AUTO", "x"}
\* BOARD values, split at ",": a position one move from a win, and a list of
\* two cells
ResponseBoards == { <<"X", "X", "", "O", "O", "", "", "", "">>,
                    <<"X", "O">> }
\* CURRENT_TURN values: a numeral and not a numeral
ResponseTurns == {"1", "x"}
\* WINNER values: absent or empty, and an identity
ResponseWinners == {"", "bob"}

\* the history variables after game g was handled with result h
AcceptedAfter(g, h) ==
    LET base == IF g \in DOMAIN h.games /\ g \in DOMAIN games THEN accepted[g] ELSE 0
    IN  [accepted EXCEPT ![g] = IF h.moved THEN base + 1 ELSE base]

Finish(op, g, h) ==
    /\ games' = h.games
    /\ outbox' = h.out
    /\ lastOp' = [op |-> op, id |-> g, status |-> h.status]
    /\ rxAlive' = (h.status # "raise")
    /\ UNCHANGED <<fileState, storeState, threadState>>

RecvInvite ==
    \E g \in GameIds, from \in Users, s \in Symbols :
        /\ rxAlive
        /\ \E h \in {handle_tictactoe_invite(games, from, g, s)} :
              /\ Finish("TICTACTOE_INVITE", g, h)
              /\ accepted' = [accepted EXCEPT ![g] = 0]

RecvMove ==
    \E g \in GameIds, from \in Users, pos \in MovePositions, s \in MoveSymbols :
      \E t \in MoveTurns(games, g) :
        /\ rxAlive
        /\ \E h \in {handle_tictactoe_move(games, from, g, pos, s, t)} :
              /\ Finish("TICTACTOE_MOVE", g, h)
              /\ accepted' = AcceptedAfter(g, h)

RecvMoveResponse ==
    \E g \in GameIds, from \in Users, b \in ResponseBoards, t \in ResponseTurns,
       w \in Users, f \in {"true", "false"}, win \in ResponseWinners :
        /\ rxAlive
        /\ \E h \in {handle_tictactoe_move_response(games, from, g, b, t, w, f, win)} :
              /\ Finish("TICTACTOE_MOVE_RESPONSE", g, h)
              /\ accepted' = [accepted EXCEPT ![g] = 0]

RecvResult ==
    \E g \in GameIds, from \in Users :
        /\ rxAlive
        /\ \E h \in {handle_tictactoe_result(games, from, g)} :
              /\ Finish("TICTACTOE_RESULT", g, h)
              /\ accepted' = AcceptedAfter(g, h)

NextNode == RecvInvite \/ RecvMove \/ RecvMoveResponse \/ RecvResult

SpecNode == Init /\ [][NextNode]_vars

----------------------------------------------------------------------------
(* node.py: the file-transfer reassembly buffer *)

\* base64.b64decode on the DATA strings used here; b64decode raises
\* binascii.Error on "Q" (one data character) and on every string not listed
B64 == ("QQ==" :> <<65>>) @@ ("Qg==" :> <<66>>) @@ ("Qw==" :> <<67>>) @@ ("====" :> <<>>)
B64Valid(d) == d \in DOMAIN B64

\* f"{file_id}.bin"
BinName(file_id) == IF file_id = "f1" THEN "f1.bin" ELSE "f2.bin"

\* the buffer _handle_file_offer registers (lines 536-546)
OfferedBuffer(from_uid, filename, filesize) ==
    [ from |-> from_uid, filename |-> filename, filesize |-> <<filesize>>,
      total_chunks |-> <<>>, chunks |-> EmptyDict, received_count |-> 0,
      save_path |-> <<>> ]

\* a minimal buffer that presumes the chunk with index 1 to be there
MinimalBuffer_WithChunk(from_uid, file_id) ==
    [ from |-> from_uid, filename |-> BinName(file_id), filesize |-> <<>>,
      total_chunks |-> <<>>, chunks |-> (1 :> <<>>), received_count |-> 1,
      save_path |-> <<>> ]

\* the buffer _handle_file_chunk creates when it saw no offer (lines 557-567)
MinimalBuffer(from_uid, file_id) ==
    [ from |-> from_uid, filename |-> BinName(file_id), filesize |-> <<>>,
      total_chunks |-> <<>>, chunks |-> EmptyDict, received_count |-> 0,
      save_path |-> <<>> ]

\* `not buf['total_chunks']`: None or 0
total_unset(buf) == buf.total_chunks = <<>> \/ buf.total_chunks = <<0>>

\* an ordered list that joins the chunks from the last index down
ordered_Reversed(chunks, total) ==
    [k \in 1 .. total |-> IF (total - k) \in DOMAIN chunks THEN chunks[total - k] ELSE <<>>]

\* line 582: [buf['chunks'].get(i, b"") for i in range(total)]
ordered(chunks, total) ==
    [k \in 1 .. total |-> IF (k - 1) \in DOMAIN chunks THEN chunks[k - 1] ELSE <<>>]

\* a test of line 583 that never finds a chunk missing
missing_chunks_Never(chunks, total) == FALSE

\* line 583: any(len(x) == 0 and (i not in buf['chunks']) ...)
missing_chunks(chunks, total) ==
    \E k \in 1 .. total :
        Len(ordered(chunks, total)[k]) = 0 /\ (k - 1) \notin DOMAIN chunks

\* b"".join(list)
RECURSIVE join(_)
join(list) == IF list = <<>> THEN <<>> ELSE Head(list) \o join(Tail(list))

\* the name the loop of lines 586-593 settles on: the filename, or the filename
\* with the first counter no file on the disk carries; the disk holds only what
\* this handler wrote
save_name(dsk, filename) ==
    <<filename, Cardinality({k \in 1 .. Len(dsk) : dsk[k].name[1] = filename})>>

\* the record send_file_received sends
FileReceivedMsg(to_user, file_id) ==
    [type |-> "FILE_RECEIVED", to |-> to_user, fileid |-> file_id, status |-> "COMPLETE"]

\* how a file handler ended: status is "raise", "drop" (the return of line 574),
\* "stored" (count below total), "deferred" (the return of line 584) or
\* "complete" (file written, FILE_RECEIVED sent)
FileHandled(status, bufs, dsk, out) ==
    [status |-> status, buffers |-> bufs, disk |-> dsk, out |-> out]

\* _handle_file_offer (lines 527-548); `int(FILESIZE or 0)` raises on a non-numeral
handle_file_offer(bufs, dsk, from_uid, file_id, filename, filesize_s) ==
    IF filesize_s # "" /\ ~IsNumeral(filesize_s) THEN FileHandled("raise", bufs, dsk, <<>>)
    ELSE FileHandled("stored",
             Put(bufs, file_id,
                 OfferedBuffer(from_uid, filename,
                               IF filesize_s = "" THEN 0 ELSE IntOf[filesize_s])),
             dsk, <<>>)

\* _handle_file_chunk (lines 550-602).  open(), write() and the send of
\* FILE_RECEIVED are taken to succeed: the except branch of line 601 is the
\* file system's or the socket's failure, not a property of the record
handle_file_chunk(bufs, dsk, from_uid, file_id, index_s, total_s, data_b64) ==
    LET bufs1 == IF file_id \in DOMAIN bufs THEN bufs
                 ELSE Put(bufs, file_id, MinimalBuffer(from_uid, file_id))
    IN  IF ~IsNumeral(index_s) \/ ~IsNumeral(total_s) \/ (data_b64 # "" /\ ~B64Valid(data_b64))
        THEN FileHandled("drop", bufs1, dsk, <<>>)
        ELSE
        LET buf    == bufs1[file_id]
            idx    == IntOf[index_s]
            total  == IntOf[total_s]
            chunk  == IF data_b64 # "" THEN B64[data_b64] ELSE <<>>
            chunks == Put(buf.chunks, idx, chunk)
            buf2   == [buf EXCEPT !.chunks = chunks,
                                  !.received_count = Cardinality(DOMAIN chunks),
                                  !.total_chunks = IF total_unset(buf) THEN <<total>> ELSE @]
            bufs2  == Put(bufs1, file_id, buf2)
        IN  IF total_unset(buf2) \/ buf2.received_count < buf2.total_chunks[1]
            THEN FileHandled("stored", bufs2, dsk, <<>>)
            ELSE IF missing_chunks(chunks, buf2.total_chunks[1])
            THEN FileHandled("deferred", bufs2, dsk, <<>>)
            ELSE LET name == save_name(dsk, buf2.filename)
                     data == join(ordered(chunks, buf2.total_chunks[1]))
                 IN  FileHandled("complete",
                         Put(bufs2, file_id, [buf2 EXCEPT !.save_path = <<name>>]),
                         Append(dsk, [name |-> name, file_id |-> file_id, data |-> data]),
                         <<FileReceivedMsg(buf2.from, file_id)>>)

----------------------------------------------------------------------------
(* The node receiving file records *)

\* at most MaxFiles files are written
MaxFiles == 2
\* at most MaxDeliveries chunks are delivered in the three-chunk transfer
MaxDeliveries == 4

\* CHUNK_INDEX values: not a numeral, negative, and 0, 1, 2
ChunkIndexes == {"x", "-1", "0", "1", "2"}
\* TOTAL_CHUNKS values: not a numeral, negative, zero, and totals that make the
\* index 2 (and 1) lie outside 0..total-1
ChunkTotals == {"x", "-1", "0", "1", "2"}
\* DATA values: empty, the encoding of one byte, not base64
ChunkDatas == {"", "QQ==", "Q"}
\* FILESIZE values
OfferSizes == {"", "3", "x"}

FinishFile(op, f, h) ==
    /\ fileBuffers' = h.buffers
    /\ disk' = h.disk
    /\ outbox' = h.out
    /\ notified' = IF h.out # <<>> THEN [notified EXCEPT ![f] = @ + 1] ELSE notified
    /\ lastOp' = [op |-> op, id |-> f, status |-> h.status]
    /\ rxAlive' = (h.status # "raise")

RecvFileOffer ==
    \E f \in FileIds, from \in {"bob"}, size \in OfferSizes :
        /\ rxAlive
        /\ \E h \in {handle_file_offer(fileBuffers, disk, from, f, "a.txt", size)} :
              FinishFile("FILE_OFFER", f, h)
        /\ UNCHANGED <<gameState, delivered, storeState, threadState>>

RecvFileChunk ==
    \E f \in FileIds, from \in {"bob"}, i \in ChunkIndexes, n \in ChunkTotals,
       d \in ChunkDatas :
        /\ rxAlive
        /\ Len(disk) < MaxFiles
        /\ \E h \in {handle_file_chunk(fileBuffers, disk, from, f, i, n, d)} :
              FinishFile("FILE_CHUNK", f, h)
        /\ UNCHANGED <<gameState, delivered, storeState, threadState>>

NextFile == RecvFileOffer \/ RecvFileChunk

SpecFile == Init /\ [][NextFile]_vars

\* A transfer of three chunks: every FILE_CHUNK carries TOTAL_CHUNKS 3 and an
\* index of 0..2; the offer, when there is one, comes first
Payloads == {"QQ==", "Qg==", "Qw=="}

OfferThree ==
    \E f \in FileIds :
        /\ rxAlive
        /\ f \notin DOMAIN fileBuffers
        /\ \E h \in {handle_file_offer(fileBuffers, disk, "bob", f, "a.txt", "3")} :
              FinishFile("FILE_OFFER", f, h)
        /\ UNCHANGED <<gameState, delivered, storeState, threadState>>

DeliverChunkOfThree ==
    \E f \in FileIds, i \in {"0", "1", "2"}, d \in Payloads :
        /\ rxAlive
        /\ Len(delivered) < MaxDeliveries
        /\ \E h \in {handle_file_chunk(fileBuffers, disk, "bob", f, i, "3", d)} :
              FinishFile("FILE_CHUNK", f, h)
        /\ delivered' = Append(delivered, [idx |-> IntOf[i], data |-> d])
        /\ UNCHANGED <<gameState, storeState, threadState>>

NextThree == OfferThree \/ DeliverChunkOfThree

SpecThree == Init /\ [][NextThree]_vars

----------------------------------------------------------------------------
(* state.py: the store of peers, posts and direct messages.  An argument    *)
(* that may be None is the string "None" when it is not given; an           *)
(* Optional[AvatarData] or Optional[float] field holds <<>> or <<value>>.   *)

\* the truth value Python gives an Optional[str]: None and "" are false
Truthy(s) == s \notin {"None", ""}

\* AvatarData(mime_type, encoding, data): the constructor stores the three
\* strings and validates nothing
AvatarData(avatar_type, avatar_encoding, avatar_data) ==
    [mime_type |-> avatar_type, encoding |-> avatar_encoding, data |-> avatar_data]

Peer(user_id, display_name, status, last_seen, avatar) ==
    [ user_id |-> user_id, display_name |-> display_name, status |-> status,
      last_seen |-> last_seen, avatar |-> avatar ]

\* an update_peer that clears the avatar of a known peer when none is given
update_peer_ClearsAvatar(ps, user_id, display_name, status, avatar_type, avatar_encoding, avatar_data, now) ==
    LET given  == Truthy(avatar_type) /\ Truthy(avatar_encoding) /\ Truthy(avatar_data)
        avatar == IF given THEN <<AvatarData(avatar_type, avatar_encoding, avatar_data)>>
                  ELSE <<>>
    IN  IF user_id \in DOMAIN ps
        THEN Put(ps, user_id,
                 [ps[user_id] EXCEPT
                     !.display_name = IF Truthy(display_name) THEN display_name ELSE @,
                     !.status = IF Truthy(status) THEN status ELSE @,
                     !.last_seen = now,
                     !.avatar = avatar])
        ELSE Put(ps, user_id, Peer(user_id, display_name, status, now, avatar))

\* an update_peer that keeps the display name a known peer already has
update_peer_KeepsName(ps, user_id, display_name, status, avatar_type, avatar_encoding, avatar_data, now) ==
    LET given  == Truthy(avatar_type) /\ Truthy(avatar_encoding) /\ Truthy(avatar_data)
        avatar == IF given THEN <<AvatarData(avatar_type, avatar_encoding, avatar_data)>>
                  ELSE <<>>
    IN  IF user_id \in DOMAIN ps
        THEN Put(ps, user_id,
                 [ps[user_id] EXCEPT
                     !.display_name = IF Truthy(@) THEN @ ELSE display_name,
                     !.status = IF Truthy(status) THEN status ELSE @,
                     !.last_seen = now,
                     !.avatar = IF avatar # <<>> \/ given THEN avatar ELSE @])
        ELSE Put(ps, user_id, Peer(user_id, display_name, status, now, avatar))

\* an update_peer that makes a second entry for a peer whose name changed
update_peer_EntryPerName(ps, user_id, display_name, status, avatar_type, avatar_encoding, avatar_data, now) ==
    LET given  == Truthy(avatar_type) /\ Truthy(avatar_encoding) /\ Truthy(avatar_data)
        avatar == IF given THEN <<AvatarData(avatar_type, avatar_encoding, avatar_data)>>
                  ELSE <<>>
    IN  IF user_id \in DOMAIN ps /\ ps[user_id].display_name = display_name
        THEN Put(ps, user_id,
                 [ps[user_id] EXCEPT
                     !.status = IF Truthy(status) THEN status ELSE @,
                     !.last_seen = now,
                     !.avatar = IF avatar # <<>> \/ given THEN avatar ELSE @])
        ELSE Put(ps, IF user_id \in DOMAIN ps THEN display_name ELSE user_id,
                 Peer(user_id, display_name, status, now, avatar))

\* update_peer (lines 78-111); now is time.time() at line 82
update_peer(ps, user_id, display_name, status, avatar_type, avatar_encoding, avatar_data, now) ==
    LET given  == Truthy(avatar_type) /\ Truthy(avatar_encoding) /\ Truthy(avatar_data)
        avatar == IF given THEN <<AvatarData(avatar_type, avatar_encoding, avatar_data)>>
                  ELSE <<>>
    IN  IF user_id \in DOMAIN ps
        THEN Put(ps, user_id,
                 [ps[user_id] EXCEPT
                     !.display_name = IF Truthy(display_name) THEN display_name ELSE @,
                     !.status = IF Truthy(status) THEN status ELSE @,
                     !.last_seen = now,
                     !.avatar = IF avatar # <<>> \/ given THEN avatar ELSE @])
        ELSE Put(ps, user_id, Peer(user_id, display_name, status, now, avatar))

\* the order of the keys of self.peers after update_peer: line 105 puts a new
\* key last, lines 98-103 change a known peer in place
keys_after_set(order, user_id) ==
    IF \E k \in 1 .. Len(order) : order[k] = user_id THEN order
    ELSE Append(order, user_id)

MessageRecord(type, user_id, content, message_id, timestamp, expires_at) ==
    [ type |-> type, user_id |-> user_id, content |-> content,
      message_id |-> message_id, timestamp |-> timestamp, expires_at |-> expires_at ]

\* an add_post that skips a message identifier the log already holds
add_post_Dedup(log, user_id, content, message_id, timestamp, expires_at) ==
    IF \E k \in 1 .. Len(log) : log[k].message_id = message_id THEN log
    ELSE Append(log, MessageRecord("POST", user_id, content, message_id, timestamp, expires_at))

\* add_post (lines 113-124), called with a timestamp
add_post(log, user_id, content, message_id, timestamp, expires_at) ==
    Append(log, MessageRecord("POST", user_id, content, message_id, timestamp, expires_at))

\* add_dm (lines 126-137), called with a timestamp
add_dm(log, user_id, content, message_id, timestamp, expires_at) ==
    Append(log, MessageRecord("DM", user_id, content, message_id, timestamp, expires_at))

----------------------------------------------------------------------------
(* node.py: the handlers of PROFILE, POST and DM records and of the records *)
(* that change nothing                                                      *)

\* config.py: the module's attributes
config ==
    [ PORT |-> 50999, BROADCAST_ADDR |-> "255.255.255.255", ENCODING |-> "utf-8",
      MSG_TERMINATOR |-> "\n\n", DEFAULT_TTL |-> 3600, RECV_BUFSIZE |-> 65535,
      VERBOSE |-> TRUE ]

\* float() on the TIMESTAMP strings used here: the numerals of IntOf; float()
\* raises ValueError on "x"
IsFloat(s) == s \in DOMAIN IntOf
FloatOf(s) == IntOf[s]

\* lines 134-137 and 151-154: TIMESTAMP, or the time of handling when the
\* field is absent ("None") or is not a number
timestamp_of(timestamp_s, now) == IF IsFloat(timestamp_s) THEN FloatOf(timestamp_s) ELSE now

\* lines 130-133 and 138: max(0, TTL), the default TTL when the field is
\* absent ("None") or is not a numeral
ttl_of(ttl_s) ==
    LET ttl == IF IsNumeral(ttl_s) THEN IntOf[ttl_s] ELSE config.DEFAULT_TTL
    IN  IF ttl > 0 THEN ttl ELSE 0

\* token.split("|") on the TOKEN strings used here
SplitBar == ("" :> <<"">>) @@ ("bob|9|chat" :> <<"bob", "9", "chat">>) @@
            ("bob|x|chat" :> <<"bob", "x", "chat">>) @@ ("bob|9" :> <<"bob", "9">>)

\* lines 155-163: the expiry a DM's token carries, None when the token is
\* empty, has not three parts or its second part is not a number
token_expiry(token) ==
    IF token = "" THEN <<>>
    ELSE LET parts == SplitBar[token]
         IN  IF Len(parts) = 3 /\ IsFloat(parts[2]) THEN <<FloatOf(parts[2])>> ELSE <<>>

\* _handle, PROFILE (lines 96-126): the peers afterwards
handle_profile(ps, user_id, display_name, status, avatar_type, avatar_encoding, avatar_data, now) ==
    update_peer(ps, user_id, display_name, status, avatar_type, avatar_encoding, avatar_data, now)

\* _handle, POST (lines 128-148): the post log afterwards
handle_post(log, user_id, content, message_id, ttl_s, timestamp_s, now) ==
    LET ts == timestamp_of(timestamp_s, now)
    IN  add_post(log, user_id, content, message_id, ts, <<ts + ttl_of(ttl_s)>>)

\* _handle, DM (lines 149-171): the DM log afterwards
handle_dm(log, from_user, content, message_id, timestamp_s, token, now) ==
    add_dm(log, from_user, content, message_id, timestamp_of(timestamp_s, now),
           token_expiry(token))

\* the record _send_profile_unicast sends in answer to a PING
ProfileMsg == [type |-> "PROFILE", user_id |-> Self]

\* three of the kinds _handle only logs (a PING is also answered with a PROFILE)
OtherKinds == {"PING", "ACK", "LIKE"}

----------------------------------------------------------------------------
(* The node receiving PROFILE, POST and DM records *)

\* time.time() goes up to MaxClock
MaxClock == 1
\* each log takes up to MaxLog entries
MaxLog == 2

\* USER_ID values of PROFILE records
ProfileUsers == {"bob", "carol"}
\* DISPLAY_NAME values: empty and two names
ProfileNames == {"", "Bob", "Rob"}
\* STATUS values
ProfileStatuses == {"hi"}
\* AVATAR_TYPE, AVATAR_ENCODING, AVATAR_DATA: the three absent, the three
\* empty, an avatar, an avatar whose data is not base64, an avatar without
\* encoding
ProfileAvatars == { <<"None", "None", "None">>, <<"", "", "">>,
                    <<"image/png", "base64", "QQ==">>, <<"image/png", "base64", "Q">>,
                    <<"image/png", "", "QQ==">> }
\* MESSAGE_ID values
MessageIds == {"m1", "m2"}
\* TIMESTAMP values: a number, and not a number
Timestamps == {"1", "x"}
\* TTL values: a numeral, and not a numeral
Ttls == {"2", "x"}
\* TOKEN values: empty, with an expiry, with an expiry that is not a number
Tokens == {"", "bob|9|chat", "bob|x|chat"}

\* the frame of a step that handles a record of the store
StoreFrame == UNCHANGED <<gameState, rxAlive, fileState, groups, clock, threadState>>

Tick ==
    /\ clock < MaxClock
    /\ clock' = clock + 1
    /\ lastOp' = [op |-> "tick", id |-> "", status |-> "ok"]
    /\ outbox' = <<>>
    /\ UNCHANGED <<gameState, rxAlive, fileState, peers, peerOrder, posts, dms, groups, threadState>>

\* a PROFILE record with every combination of the field values
RecvProfile ==
    \E u \in ProfileUsers, n \in ProfileNames, s \in ProfileStatuses, a \in ProfileAvatars :
        /\ rxAlive
        /\ peers' = handle_profile(peers, u, n, s, a[1], a[2], a[3], clock)
        /\ peerOrder' = keys_after_set(peerOrder, u)
        /\ lastOp' = [op |-> "PROFILE", id |-> u, status |-> "ok",
                      display_name |-> n, avatar |-> a]
        /\ outbox' = <<>>
        /\ UNCHANGED <<posts, dms>>
        /\ StoreFrame

\* a POST record of bob's with one content
RecvPostOfBob ==
    \E m \in {"m1"} :
        /\ rxAlive
        /\ Len(posts) < MaxLog
        /\ posts' = handle_post(posts, "bob", "hello", m, "2", "1", clock)
        /\ lastOp' = [op |-> "POST", id |-> "bob", status |-> "ok", message_id |-> m]
        /\ outbox' = <<>>
        /\ UNCHANGED <<peers, peerOrder, dms>>
        /\ StoreFrame

\* a DM record of bob's with one content
RecvDmOfBob ==
    \E m \in {"m1"} :
        /\ rxAlive
        /\ Len(dms) < MaxLog
        /\ dms' = handle_dm(dms, "bob", "hello", m, "1", "bob|9|chat", clock)
        /\ lastOp' = [op |-> "DM", id |-> "bob", status |-> "ok", message_id |-> m]
        /\ outbox' = <<>>
        /\ UNCHANGED <<peers, peerOrder, posts>>
        /\ StoreFrame

\* a record of a kind that _handle only logs
RecvOther ==
    \E k \in OtherKinds :
        /\ rxAlive
        /\ lastOp' = [op |-> k, id |-> "", status |-> "ok"]
        /\ outbox' = IF k = "PING" THEN <<ProfileMsg>> ELSE <<>>
        /\ UNCHANGED <<peers, peerOrder, posts, dms>>
        /\ StoreFrame

NextPeers == Tick \/ RecvProfile \/ RecvPostOfBob \/ RecvDmOfBob \/ RecvOther

SpecPeers == Init /\ [][NextPeers]_vars

\* a PROFILE record of bob's
RecvProfileOfBob ==
    \E n \in {"Bob"} :
        /\ rxAlive
        /\ peers' = handle_profile(peers, "bob", n, "hi", "None", "None", "None", clock)
        /\ peerOrder' = keys_after_set(peerOrder, "bob")
        /\ lastOp' = [op |-> "PROFILE", id |-> "bob", status |-> "ok",
                      display_name |-> n, avatar |-> <<"None", "None", "None">>]
        /\ outbox' = <<>>
        /\ UNCHANGED <<posts, dms>>
        /\ StoreFrame

\* a POST record with every combination of the field values
RecvPost ==
    \E m \in MessageIds, ttl \in Ttls, ts \in Timestamps :
        /\ rxAlive
        /\ Len(posts) < MaxLog
        /\ posts' = handle_post(posts, "bob", "hello", m, ttl, ts, clock)
        /\ lastOp' = [op |-> "POST", id |-> "bob", status |-> "ok", message_id |-> m]
        /\ outbox' = <<>>
        /\ UNCHANGED <<peers, peerOrder, dms>>
        /\ StoreFrame

\* a DM record with every combination of the field values
RecvDm ==
    \E m \in {"m1"}, ts \in Timestamps, token \in Tokens :
        /\ rxAlive
        /\ Len(dms) < MaxLog
        /\ dms' = handle_dm(dms, "bob", "hello", m, ts, token, clock)
        /\ lastOp' = [op |-> "DM", id |-> "bob", status |-> "ok", message_id |-> m]
        /\ outbox' = <<>>
        /\ UNCHANGED <<peers, peerOrder, posts>>
        /\ StoreFrame

NextLog == Tick \/ RecvProfileOfBob \/ RecvPost \/ RecvDm \/ RecvOther

SpecLog == Init /\ [][NextLog]_vars

----------------------------------------------------------------------------
(* The threads of one `tictactoe move` command (cli.py lines 149-240): the   *)
(* main thread starts the node, looks the game up and makes the move; the   *)
(* receive thread handles game records; the presence thread runs            *)
(* _presence_loop.  A handler runs as one step, at the end of its pass       *)
(* through `with self._lock`; time is counted in seconds.                    *)

\* Lock.acquire of `with self._lock`: the thread goes on when no thread is inside
can_acquire(l) == l = "None"

\* a `with self._lock` that does not take the lock
lock_entered_NoLock(l, t) == l

\* the lock once thread t is inside `with self._lock` (line 85)
lock_entered(l, t) == t

\* a game record of the wire, with the fields the four handlers read
GameRecord(type, from_user, position, symbol, turn) ==
    [ type |-> type, from |-> from_user, gameid |-> "g1", position |-> position,
      symbol |-> symbol, turn |-> turn ]

\* the game records that arrive: an invitation of bob's with either symbol,
\* moves of bob's that leave symbol and turn to the receiver, bob's view of the
\* game one move from a win, and bob's result
Datagrams ==
    {GameRecord("TICTACTOE_INVITE", "bob", "", s, "") : s \in {"X", "O"}} \cup
    {GameRecord("TICTACTOE_MOVE", "bob", p, "AUTO", "AUTO") : p \in {"0", "1", "x"}} \cup
    {GameRecord("TICTACTOE_MOVE_RESPONSE", "bob", "", "", "1"),
     GameRecord("TICTACTOE_RESULT", "bob", "", "", "")}

\* _handle (lines 207-214): the handler of the record's type
handle_game_record(gs, d) ==
    IF d.type = "TICTACTOE_INVITE"
        THEN handle_tictactoe_invite(gs, d.from, d.gameid, d.symbol)
    ELSE IF d.type = "TICTACTOE_MOVE"
        THEN handle_tictactoe_move(gs, d.from, d.gameid, d.position, d.symbol, d.turn)
    ELSE IF d.type = "TICTACTOE_RESULT"
        THEN handle_tictactoe_result(gs, d.from, d.gameid)
    ELSE handle_tictactoe_move_response(gs, d.from, d.gameid,
             <<"X", "X", "", "O", "O", "", "", "", "">>, d.turn, Self, "false", "")

\* the handler put another TicTacToeGame object under the game id, or none:
\* create_game and remove_game do so, the other writes change the object
replaces_game(gs, d, h) ==
    \/ d.type = "TICTACTOE_INVITE"
    \/ d.gameid \notin DOMAIN gs
    \/ d.gameid \notin DOMAIN h.games

\* the record the command broadcasts when it does not find the game (lines 167-179)
AutoMoveMsg(game_id, position) ==
    [ type |-> "TICTACTOE_MOVE", to |-> "broadcast", gameid |-> game_id,
      position |-> position, symbol |-> "AUTO", turn |-> "AUTO" ]

\* the record send_tictactoe_move sends (lines 214-222)
MoveMsg(to_user, game_id, position, symbol, turn) ==
    [ type |-> "TICTACTOE_MOVE", to |-> to_user, gameid |-> game_id,
      position |-> position, symbol |-> symbol, turn |-> turn ]

\* the record the command sends when its move ended the game (lines 225-234)
CliResultMsg(game, opponent) ==
    [ type |-> "TICTACTOE_RESULT", to |-> opponent, gameid |-> game.game_id,
      result |-> IF game.winner = Self THEN "LOSS"
                 ELSE IF game.winner # "None" THEN "WIN" ELSE "DRAW",
      symbol |-> IF opponent = game.player1 THEN game.player1_symbol
                 ELSE game.player2_symbol,
      winning_line |-> game.winning_line ]

\* one pass of the loop body of _presence_loop after the wait (lines 703-711):
\* config has no attribute PRESENCE_INTERVAL, so line 704 raises AttributeError
presence_tick(pres, now) ==
    IF "PRESENCE_INTERVAL" \notin DOMAIN config
        THEN [raised |-> TRUE, presence |-> pres, out |-> <<>>]
    ELSE IF now - pres.last_tick[1] < config.PRESENCE_INTERVAL
        THEN [raised |-> FALSE, presence |-> pres, out |-> <<>>]
    ELSE IF now - pres.last_profile_sent >= config.PRESENCE_INTERVAL
        THEN [ raised |-> FALSE,
               presence |-> [last_profile_sent |-> now, last_tick |-> <<now>>,
                             sent |-> Append(pres.sent, "PROFILE")],
               out |-> <<ProfileMsg>> ]
    ELSE [ raised |-> FALSE,
           presence |-> [pres EXCEPT !.last_tick = <<now>>,
                                     !.sent = Append(pres.sent, "PING")],
           out |-> <<[type |-> "PING", user_id |-> Self]>> ]

\* the positions the command is given
CliPositions == {0, 1}

\* the node runs: start() has returned and stop() was not called
Running == pc["main"] \in {"sleep", "got", "done"}

ThreadFrame == UNCHANGED <<fileState, peers, peerOrder, posts, dms, groups>>

\* Node.start (lines 35-43): the receive thread and the presence thread begin
NodeStart ==
    /\ pc["main"] = "init"
    /\ pc' = [pc EXCEPT !["main"] = "sleep", !["rx"] = "recv", !["presence"] = "started"]
    /\ presence' = [presence EXCEPT !.last_profile_sent = clock]
    /\ outbox' = <<ProfileMsg>>
    /\ lastOp' = [op |-> "start", id |-> "", status |-> "ok", thread |-> "main"]
    /\ UNCHANGED <<gameState, rxAlive, clock, lock, local>>
    /\ ThreadFrame

\* time.time() advances by a second
Second ==
    /\ Running
    /\ clock < MaxClock
    /\ clock' = clock + 1
    /\ lastOp' = [op |-> "tick", id |-> "", status |-> "ok", thread |-> ""]
    /\ outbox' = <<>>
    /\ UNCHANGED <<gameState, rxAlive, lock, pc, local, presence>>
    /\ ThreadFrame

\* _recv_loop receives a datagram and _on_udp decodes it and enters the lock
RxEnter ==
    \E d \in Datagrams :
        /\ Running
        /\ pc["rx"] = "recv"
        /\ can_acquire(lock)
        /\ lock' = lock_entered(lock, "rx")
        /\ pc' = [pc EXCEPT !["rx"] = "handle"]
        /\ local' = [local EXCEPT !["rx"] = d]
        /\ lastOp' = [op |-> "recvfrom", id |-> d.gameid, status |-> "ok", thread |-> "rx"]
        /\ outbox' = <<>>
        /\ UNCHANGED <<gameState, rxAlive, clock, presence>>
        /\ ThreadFrame

\* _handle runs and the lock is left; an exception ends the receive thread
RxHandle ==
    /\ pc["rx"] = "handle"
    /\ \E d \in {local["rx"]} :
         \E h \in {handle_game_record(games, d)} :
            /\ games' = h.games
            /\ accepted' = IF d.type \in {"TICTACTOE_INVITE", "TICTACTOE_MOVE_RESPONSE"}
                           THEN [accepted EXCEPT ![d.gameid] = 0]
                           ELSE AcceptedAfter(d.gameid, h)
            /\ outbox' = h.out
            /\ rxAlive' = (h.status # "raise")
            /\ pc' = [pc EXCEPT !["rx"] = IF h.status = "raise" THEN "dead" ELSE "recv"]
            /\ local' = [local EXCEPT
                            !["rx"] = <<>>,
                            !["main"] = IF pc["main"] = "got" /\ replaces_game(games, d, h)
                                        THEN [@ EXCEPT !.stale = TRUE] ELSE @]
            /\ lastOp' = [op |-> d.type, id |-> d.gameid, status |-> h.status,
                          thread |-> "rx"]
    /\ lock' = "None"
    /\ UNCHANGED <<clock, presence>>
    /\ ThreadFrame

\* the command looks the game up (line 160); without the game it broadcasts
\* the move and ends (lines 161-196)
CliGetGame ==
    \E g \in GameIds, position \in CliPositions :
        /\ pc["main"] = "sleep"
        /\ IF g \in DOMAIN games
           THEN /\ pc' = [pc EXCEPT !["main"] = "got"]
                /\ local' = [local EXCEPT !["main"] =
                                [ game_id |-> g, position |-> position,
                                  game |-> games[g], stale |-> FALSE ]]
                /\ outbox' = <<>>
           ELSE /\ pc' = [pc EXCEPT !["main"] = "done"]
                /\ outbox' = <<AutoMoveMsg(g, position)>>
                /\ UNCHANGED local
        /\ lastOp' = [op |-> "get_game", id |-> g, status |-> "ok", thread |-> "main"]
        /\ UNCHANGED <<gameState, rxAlive, clock, lock, presence>>
        /\ ThreadFrame

\* the command makes the move in its own table and sends it (lines 199-234).
\* `game` is the object found at line 160: the one in the table, or the one
\* that was there when a handler has put another under the id since.
CliMakeMove ==
    /\ pc["main"] = "got"
    /\ \E c \in {local["main"]} :
        LET held       == IF c.stale \/ c.game_id \notin DOMAIN games
                          THEN c.game ELSE games[c.game_id]
            our_symbol == IF Self = held.player1 THEN held.player1_symbol
                          ELSE held.player2_symbol
            opponent   == IF Self = held.player1 THEN held.player2 ELSE held.player1
        IN  \E r \in {make_move(games, c.game_id, Self, c.position, our_symbol,
                                held.current_turn)} :
              LET after == IF c.stale \/ c.game_id \notin DOMAIN r.games
                           THEN c.game ELSE r.games[c.game_id]
              IN  /\ games' = r.games
                  /\ accepted' = IF r.status = "ok"
                                 THEN [accepted EXCEPT ![c.game_id] = @ + 1] ELSE accepted
                  /\ outbox' = IF r.status # "ok" THEN <<>>
                               ELSE <<MoveMsg(opponent, c.game_id, c.position, our_symbol,
                                              after.current_turn - 1)>> \o
                                    (IF after.finished
                                     THEN <<CliResultMsg(after, opponent)>> ELSE <<>>)
                  /\ lastOp' = [op |-> "make_move", id |-> c.game_id, status |-> r.status,
                                thread |-> "main"]
    /\ pc' = [pc EXCEPT !["main"] = "done"]
    /\ local' = [local EXCEPT !["main"] = <<>>]
    /\ UNCHANGED <<rxAlive, clock, lock, presence>>
    /\ ThreadFrame

\* Node.stop (lines 45-49)
NodeStop ==
    /\ pc["main"] = "done"
    /\ pc' = [pc EXCEPT !["main"] = "stopped"]
    /\ lastOp' = [op |-> "stop", id |-> "", status |-> "ok", thread |-> "main"]
    /\ outbox' = <<>>
    /\ UNCHANGED <<gameState, rxAlive, clock, lock, local, presence>>
    /\ ThreadFrame

\* _presence_loop begins (line 700)
PresenceBegin ==
    /\ pc["presence"] = "started"
    /\ presence' = [presence EXCEPT !.last_tick = <<clock>>]
    /\ pc' = [pc EXCEPT !["presence"] = "wait"]
    /\ lastOp' = [op |-> "presence", id |-> "", status |-> "ok", thread |-> "presence"]
    /\ outbox' = <<>>
    /\ UNCHANGED <<gameState, rxAlive, clock, lock, local>>
    /\ ThreadFrame

\* the wait of a second has passed and the loop body runs (lines 702-711)
PresenceWake ==
    /\ Running
    /\ pc["presence"] = "wait"
    /\ clock > presence.last_tick[1]
    /\ \E p \in {presence_tick(presence, clock)} :
          /\ presence' = p.presence
          /\ outbox' = p.out
          /\ pc' = [pc EXCEPT !["presence"] = IF p.raised THEN "dead" ELSE "wait"]
          /\ lastOp' = [op |-> "presence", id |-> "",
                        status |-> IF p.raised THEN "raise" ELSE "ok",
                        thread |-> "presence"]
    /\ UNCHANGED <<gameState, rxAlive, clock, lock, local>>
    /\ ThreadFrame

NextThreads ==
    \/ NodeStart \/ Second \/ RxEnter \/ RxHandle \/ CliGetGame \/ CliMakeMove
    \/ NodeStop \/ PresenceBegin \/ PresenceWake

SpecThreads == Init /\ [][NextThreads]_vars

----------------------------------------------------------------------------
(* state.py: the filtered views of the two logs, and the store driven      *)
(* through its own interface (add_post, add_dm, the two listings)           *)

\* the loop of lines 152-157 (and 163-168) from entry k of the log on; out is
\* the list built so far
RECURSIVE entries_by_user(_, _, _, _, _, _)
entries_by_user(log, k, out, user_id, only_valid, now) ==
    IF k > Len(log) THEN out
    ELSE LET m == log[k]
         IN  IF m.user_id # user_id
             THEN entries_by_user(log, k + 1, out, user_id, only_valid, now)
             ELSE IF only_valid /\ m.expires_at # <<>> /\ m.expires_at[1] < now
             THEN entries_by_user(log, k + 1, out, user_id, only_valid, now)
             ELSE entries_by_user(log, k + 1, Append(out, m), user_id, only_valid, now)

\* a listing that also leaves out the entries that expire at this very time
list_posts_by_user_DropsExpiringNow(log, user_id, only_valid, now) ==
    LET Kept(m) == /\ m.user_id = user_id
                   /\ (only_valid /\ m.expires_at # <<>>) => m.expires_at[1] > now
    IN  SelectSeq(log, Kept)

\* list_posts_by_user (lines 149-158); now is time.time() at line 150
list_posts_by_user(log, user_id, only_valid, now) ==
    entries_by_user(log, 1, <<>>, user_id, only_valid, now)

\* list_dms_by_user (lines 160-169); now is time.time() at line 161
list_dms_by_user(log, user_id, only_valid, now) ==
    entries_by_user(log, 1, <<>>, user_id, only_valid, now)

\* the authors of the entries, and one identity that wrote nothing
Authors == {"bob", "carol"}
Listed == Authors \cup {"dave"}
\* expires_at arguments: None and two times
Expiries == {<<>>, <<0>>, <<1>>}

\* add_post with a timestamp and an expiry, as the tests call it; the two
\* logs together take up to MaxLog entries
AddPost ==
    \E u \in Authors, m \in MessageIds, e \in Expiries :
        /\ Len(posts) + Len(dms) < MaxLog
        /\ posts' = add_post(posts, u, "hello", m, 0, e)
        /\ lastOp' = [op |-> "add_post", id |-> u, status |-> "ok"]
        /\ outbox' = <<>>
        /\ UNCHANGED <<peers, peerOrder, dms>>
        /\ StoreFrame

AddDm ==
    \E u \in Authors, m \in MessageIds, e \in Expiries :
        /\ Len(posts) + Len(dms) < MaxLog
        /\ dms' = add_dm(dms, u, "hello", m, 0, e)
        /\ lastOp' = [op |-> "add_dm", id |-> u, status |-> "ok"]
        /\ outbox' = <<>>
        /\ UNCHANGED <<peers, peerOrder, posts>>
        /\ StoreFrame

ListPosts ==
    \E u \in Listed, b \in BOOLEAN :
        /\ lastOp' = [op |-> "list_posts_by_user", id |-> u, status |-> "ok",
                      only_valid |-> b,
                      result |-> list_posts_by_user(posts, u, b, clock)]
        /\ outbox' = <<>>
        /\ UNCHANGED <<peers, peerOrder, posts, dms>>
        /\ StoreFrame

ListDms ==
    \E u \in Listed, b \in BOOLEAN :
        /\ lastOp' = [op |-> "list_dms_by_user", id |-> u, status |-> "ok",
                      only_valid |-> b,
                      result |-> list_dms_by_user(dms, u, b, clock)]
        /\ outbox' = <<>>
        /\ UNCHANGED <<peers, peerOrder, posts, dms>>
        /\ StoreFrame

NextViews == Tick \/ AddPost \/ AddDm \/ ListPosts \/ ListDms

SpecViews == Init /\ [][NextViews]_vars

----------------------------------------------------------------------------
(* state.py: resolve_user_id over the peers that PROFILE records made *)

\* str.lower() on the display names and queries used here
Lower == ("bob" :> "bob") @@ ("Bob" :> "bob") @@ ("BOB" :> "bob") @@
         ("carol" :> "carol") @@ ("Carol" :> "carol") @@ ("dave" :> "dave")

\* the loop of lines 176-178 from key k of the dict on: the first identity, in
\* the dict's order, whose display name in lower case is qlower, else None
RECURSIVE first_named(_, _, _, _)
first_named(ps, order, k, qlower) ==
    IF k > Len(order) THEN "None"
    ELSE IF Lower[ps[order[k]].display_name] = qlower THEN order[k]
    ELSE first_named(ps, order, k + 1, qlower)

\* a resolve_user_id that looks at the display names before the identities
resolve_user_id_NamesFirst(ps, order, query) ==
    LET uid == first_named(ps, order, 1, Lower[query])
    IN  IF uid # "None" THEN uid
        ELSE IF query \in DOMAIN ps THEN query ELSE "None"

\* resolve_user_id (lines 171-179); order is the order of the keys of self.peers
resolve_user_id(ps, order, query) ==
    IF query \in DOMAIN ps THEN query
    ELSE first_named(ps, order, 1, Lower[query])

\* DISPLAY_NAME values: one that is another peer's identity, the same with a
\* capital, and another name
ResolveNames == {"bob", "Bob", "Carol"}
\* the queries: an identity, a name in capitals, a name, and nobody's
Queries == {"bob", "BOB", "Carol", "dave"}

\* a PROFILE record of bob's or carol's with one of the names
RecvProfileNamed ==
    \E u \in ProfileUsers, n \in ResolveNames :
        /\ rxAlive
        /\ peers' = handle_profile(peers, u, n, "hi", "None", "None", "None", clock)
        /\ peerOrder' = keys_after_set(peerOrder, u)
        /\ lastOp' = [op |-> "PROFILE", id |-> u, status |-> "ok",
                      display_name |-> n, avatar |-> <<"None", "None", "None">>]
        /\ outbox' = <<>>
        /\ UNCHANGED <<posts, dms>>
        /\ StoreFrame

Resolve ==
    \E q \in Queries :
        /\ lastOp' = [op |-> "resolve_user_id", id |-> q, status |-> "ok",
                      result |-> resolve_user_id(peers, peerOrder, q)]
        /\ outbox' = <<>>
        /\ UNCHANGED <<peers, peerOrder, posts, dms>>
        /\ StoreFrame

NextResolve == Tick \/ RecvProfileNamed \/ Resolve

SpecResolve == Init /\ [][NextResolve]_vars

----------------------------------------------------------------------------
(* state.py: the groups, and the handlers of GROUP_CREATE and GROUP_UPDATE  *)
(* records (node.py).  A member set is a TLA+ set; a list of members is a   *)
(* sequence.                                                                *)

\* an entry of self.groups (lines 204 and 215)
Group(name, members) == [name |-> name, members |-> members]

\* the loops of lines 209-211 and 216-218 from element k on: add every
\* element of the list that is not empty
RECURSIVE add_each(_, _, _)
add_each(members, list, k) ==
    IF k > Len(list) THEN members
    ELSE add_each(IF list[k] # "" THEN members \cup {list[k]} ELSE members, list, k + 1)

\* the loop of lines 223-224 from element k on: discard every element
RECURSIVE discard_each(_, _, _)
discard_each(members, list, k) ==
    IF k > Len(list) THEN members
    ELSE discard_each(members \ {list[k]}, list, k + 1)

\* a create_or_update_group that gives a known group the listed members only
create_or_update_group_Replaces(gs, group_id, name, members) ==
    Put(gs, group_id, Group(IF Truthy(name) THEN name ELSE group_id,
                            add_each({}, members, 1)))

\* create_or_update_group (lines 201-211); name is "None" when not given; a
\* members argument of None does what an empty list does
create_or_update_group(gs, group_id, name, members) ==
    LET g == IF group_id \in DOMAIN gs THEN gs[group_id]
             ELSE Group(IF Truthy(name) THEN name ELSE group_id, {})
    IN  Put(gs, group_id,
            Group(IF Truthy(name) THEN name ELSE g.name, add_each(g.members, members, 1)))

\* a group_add_members that leaves an unknown group id out of the table
group_add_members_KnownOnly(gs, group_id, add) ==
    IF group_id \notin DOMAIN gs THEN gs
    ELSE Put(gs, group_id, [gs[group_id] EXCEPT !.members = add_each(@, add, 1)])

\* group_add_members (lines 213-218)
group_add_members(gs, group_id, add) ==
    LET g == IF group_id \in DOMAIN gs THEN gs[group_id] ELSE Group(group_id, {})
    IN  Put(gs, group_id, [g EXCEPT !.members = add_each(@, add, 1)])

\* group_remove_members (lines 220-224)
group_remove_members(gs, group_id, remove) ==
    IF group_id \notin DOMAIN gs THEN gs
    ELSE Put(gs, group_id, [gs[group_id] EXCEPT !.members = discard_each(@, remove, 1)])

\* str.split(",") on the MEMBERS, ADD and REMOVE strings used here
SplitComma == ("" :> <<"">>) @@ ("bob" :> <<"bob">>) @@ ("carol" :> <<"carol">>) @@
              ("bob,,carol" :> <<"bob", "", "carol">>)

\* [m for m in kv.get(KEY, "").split(",") if m] (lines 218, 224, 225); the
\* field is "None" when the record does not carry it
RECURSIVE non_empty(_, _)
non_empty(list, k) ==
    IF k > Len(list) THEN <<>>
    ELSE (IF list[k] # "" THEN <<list[k]>> ELSE <<>>) \o non_empty(list, k + 1)
member_list(field) == non_empty(SplitComma[IF field = "None" THEN "" ELSE field], 1)

\* _handle, GROUP_CREATE (lines 215-221): the groups afterwards
handle_group_create(gs, group_id, group_name, members) ==
    LET gid   == IF group_id = "None" THEN "" ELSE group_id
        gname == IF group_name = "None" THEN gid ELSE group_name
    IN  create_or_update_group(gs, gid, gname, member_list(members))

\* _handle, GROUP_UPDATE (lines 222-230): the groups afterwards
handle_group_update(gs, group_id, add_field, remove_field) ==
    LET gid    == IF group_id = "None" THEN "" ELSE group_id
        add    == member_list(add_field)
        remove == member_list(remove_field)
        added  == IF add # <<>> THEN group_add_members(gs, gid, add) ELSE gs
    IN  IF remove # <<>> THEN group_remove_members(added, gid, remove) ELSE added

\* GROUP_ID values
GroupIds == {"g1", "g2"}
\* name arguments and GROUP_NAME values: absent, and a name
GroupNames == {"None", "team"}
\* lists of members given to the store's operations
MemberLists == {<<>>, <<"bob">>, <<"carol">>, <<"bob", "carol">>}
\* MEMBERS, ADD and REMOVE values: absent, one identity, and two identities
\* with an empty piece between them
MemberFields == {"None", "bob", "carol", "bob,,carol"}

\* the frame of a step on the groups
GroupFrame == UNCHANGED <<gameState, rxAlive, fileState, peers, peerOrder, posts, dms,
                          clock, threadState>>

CreateOrUpdateGroup ==
    \E g \in GroupIds, n \in GroupNames, ms \in MemberLists :
        /\ groups' = create_or_update_group(groups, g, n, ms)
        /\ lastOp' = [op |-> "create_or_update_group", id |-> g, status |-> "ok",
                      add |-> ms, remove |-> <<>>]
        /\ outbox' = <<>>
        /\ GroupFrame

GroupAddMembers ==
    \E g \in GroupIds, ms \in MemberLists :
        /\ groups' = group_add_members(groups, g, ms)
        /\ lastOp' = [op |-> "group_add_members", id |-> g, status |-> "ok",
                      add |-> ms, remove |-> <<>>]
        /\ outbox' = <<>>
        /\ GroupFrame

GroupRemoveMembers ==
    \E g \in GroupIds, ms \in MemberLists :
        /\ groups' = group_remove_members(groups, g, ms)
        /\ lastOp' = [op |-> "group_remove_members", id |-> g, status |-> "ok",
                      add |-> <<>>, remove |-> ms]
        /\ outbox' = <<>>
        /\ GroupFrame

RecvGroupCreate ==
    \E g \in GroupIds, n \in GroupNames, ms \in MemberFields :
        /\ rxAlive
        /\ groups' = handle_group_create(groups, g, n, ms)
        /\ lastOp' = [op |-> "GROUP_CREATE", id |-> g, status |-> "ok",
                      add |-> member_list(ms), remove |-> <<>>]
        /\ outbox' = <<>>
        /\ GroupFrame

RecvGroupUpdate ==
    \E g \in GroupIds, a \in MemberFields, r \in MemberFields :
        /\ rxAlive
        /\ groups' = handle_group_update(groups, g, a, r)
        /\ lastOp' = [op |-> "GROUP_UPDATE", id |-> g, status |-> "ok",
                      add |-> member_list(a), remove |-> member_list(r)]
        /\ outbox' = <<>>
        /\ GroupFrame

NextGroups ==
    \/ CreateOrUpdateGroup \/ GroupAddMembers \/ GroupRemoveMembers
    \/ RecvGroupCreate \/ RecvGroupUpdate \/ RecvOther

SpecGroups == Init /\ [][NextGroups]_vars

----------------------------------------------------------------------------
(* messages.py: the codec.  A text is a sequence of pieces; a piece is one  *)
(* of the characters NL, CR, SP and COLON, or a word: a string that holds   *)
(* none of these characters.  A dict is the sequence of its <<key, value>>  *)
(* items in insertion order; a key is a string and a value is a text.       *)

NL == "\n"
CR == "\r"
SP == " "
COLON == ":"
\* the characters str.strip() and str.lstrip() remove, among those of the texts
Whitespace == {SP, CR, NL}
\* config.MSG_TERMINATOR as a text
terminator == <<NL, NL>>

\* str.upper() on the words used here; a word without entry is in upper case
\* already, and a character stays what it is
Upper == ("ping" :> "PING") @@ ("type" :> "TYPE")
upper(t) == [k \in 1 .. Len(t) |-> IF t[k] \in DOMAIN Upper THEN Upper[t[k]] ELSE t[k]]

\* the str a text stands for
RECURSIVE Str(_)
Str(t) == IF t = <<>> THEN "" ELSE t[1] \o Str(Tail(t))

\* str(n) on the integers the codec formats
str_int(n) == IF n = 3600 THEN "3600" ELSE StrOf(n)

\* dict: `key in kv`, kv.get(key, default), kv[key] = value
dict_has(kv, key) == \E k \in 1 .. Len(kv) : kv[k][1] = key
dict_get(kv, key, default) ==
    IF dict_has(kv, key) THEN kv[CHOOSE k \in 1 .. Len(kv) : kv[k][1] = key][2] ELSE default
dict_set(kv, key, value) ==
    IF dict_has(kv, key)
    THEN [k \in 1 .. Len(kv) |-> IF kv[k][1] = key THEN <<key, value>> ELSE kv[k]]
    ELSE Append(kv, <<key, value>>)

\* "\n".join(lines) from line k on
RECURSIVE join_lines(_, _)
join_lines(ls, k) ==
    IF k > Len(ls) THEN <<>>
    ELSE IF k = Len(ls) THEN ls[k]
    ELSE ls[k] \o <<NL>> \o join_lines(ls, k + 1)

\* format_message (lines 37-39)
format_message(kv) ==
    join_lines([k \in 1 .. Len(kv) |-> <<kv[k][1]>> \o <<COLON, SP>> \o kv[k][2]], 1)
        \o terminator

\* raw.replace("\r\n", "\n")
RECURSIVE replace_crlf(_)
replace_crlf(t) ==
    IF t = <<>> THEN <<>>
    ELSE IF Len(t) >= 2 /\ t[1] = CR /\ t[2] = NL
         THEN <<NL>> \o replace_crlf(SubSeq(t, 3, Len(t)))
         ELSE <<t[1]>> \o replace_crlf(Tail(t))

\* str.lstrip, str.rstrip and str.strip with the characters they remove
RECURSIVE lstrip(_, _)
lstrip(t, chars) == IF t # <<>> /\ t[1] \in chars THEN lstrip(Tail(t), chars) ELSE t
RECURSIVE rstrip(_, _)
rstrip(t, chars) ==
    IF t # <<>> /\ t[Len(t)] \in chars THEN rstrip(SubSeq(t, 1, Len(t) - 1), chars) ELSE t
strip(t, chars) == rstrip(lstrip(t, chars), chars)

\* the place of the first c in t, 0 when t holds no c
index_of(t, c) ==
    IF \E i \in 1 .. Len(t) : t[i] = c
    THEN CHOOSE i \in 1 .. Len(t) : t[i] = c /\ \A j \in 1 .. i - 1 : t[j] # c
    ELSE 0

\* t.split(sep)
RECURSIVE split(_, _)
split(t, sep) ==
    LET i == index_of(t, sep)
    IN  IF i = 0 THEN <<t>>
        ELSE <<SubSeq(t, 1, i - 1)>> \o split(SubSeq(t, i + 1, Len(t)), sep)

\* a value that loses the whitespace at both of its ends
value_of_Stripped(line, i) == strip(SubSeq(line, i + 1, Len(line)), Whitespace)

\* lines 55-56: the value of a line whose first colon is at i
value_of(line, i) == lstrip(SubSeq(line, i + 1, Len(line)), Whitespace)

\* the loop of lines 49-56 from line k on
RECURSIVE parse_lines(_, _, _)
parse_lines(ls, k, kv) ==
    IF k > Len(ls) THEN kv
    ELSE LET line == ls[k]
             i    == index_of(line, COLON)
         IN  IF strip(line, Whitespace) = <<>> THEN parse_lines(ls, k + 1, kv)
             ELSE IF i = 0 THEN parse_lines(ls, k + 1, kv)
             ELSE parse_lines(ls, k + 1,
                      dict_set(kv, Str(upper(strip(SubSeq(line, 1, i - 1), Whitespace))),
                               value_of(line, i)))

\* REQUIRED_FIELDS (lines 8-20)
REQUIRED_FIELDS ==
    ("PROFILE" :> <<"TYPE", "USER_ID", "DISPLAY_NAME", "STATUS">>) @@
    ("POST" :> <<"TYPE", "USER_ID", "CONTENT", "TTL", "MESSAGE_ID", "TOKEN">>) @@
    ("DM" :> <<"TYPE", "FROM", "TO", "CONTENT", "TIMESTAMP", "MESSAGE_ID", "TOKEN">>) @@
    ("PING" :> <<"TYPE", "USER_ID">>) @@
    ("ACK" :> <<"TYPE", "MESSAGE_ID", "STATUS">>) @@
    ("FOLLOW" :> <<"TYPE", "FROM", "TO", "TIMESTAMP", "MESSAGE_ID", "TOKEN">>) @@
    ("UNFOLLOW" :> <<"TYPE", "FROM", "TO", "TIMESTAMP", "MESSAGE_ID", "TOKEN">>) @@
    ("TICTACTOE_INVITE" :> <<"TYPE", "FROM", "TO", "GAMEID", "MESSAGE_ID", "SYMBOL",
                             "TIMESTAMP", "TOKEN">>) @@
    ("TICTACTOE_MOVE" :> <<"TYPE", "FROM", "TO", "GAMEID", "MESSAGE_ID", "POSITION",
                           "SYMBOL", "TURN", "TOKEN">>) @@
    ("TICTACTOE_RESULT" :> <<"TYPE", "FROM", "TO", "GAMEID", "MESSAGE_ID", "RESULT",
                             "SYMBOL", "TIMESTAMP">>) @@
    ("TICTACTOE_MOVE_RESPONSE" :> <<"TYPE", "FROM", "TO", "GAMEID", "MESSAGE_ID", "BOARD",
                                    "CURRENT_TURN", "WHOSE_TURN", "FINISHED", "TIMESTAMP">>)

\* a list of the missing fields that stops at the first of them
missing_fields_FirstOnly(required, kv) ==
    LET Absent(f) == ~dict_has(kv, f)
        missing   == SelectSeq(required, Absent)
    IN  IF missing = <<>> THEN <<>> ELSE <<missing[1]>>

\* line 65: [f for f in required if f not in kv]
missing_fields(required, kv) ==
    LET Absent(f) == ~dict_has(kv, f)
    IN  SelectSeq(required, Absent)

\* what parse_message gives: a ParsedMessage (status "ok"), or the ValueError
\* it raises, with the keys its message names
ParsedMessage(type, kv, raw) ==
    [status |-> "ok", type |-> type, kv |-> kv, raw |-> raw, error |-> "", missing |-> <<>>]
ValueError(error, type, missing) ==
    [status |-> "ValueError", type |-> type, kv |-> <<>>, raw |-> <<>>, error |-> error,
     missing |-> missing]

\* lines 69-75: the defaults; now is time.time()
with_defaults(msg_type, kv, now) ==
    LET kv1 == IF msg_type = "POST" /\ ~dict_has(kv, "TTL")
               THEN dict_set(kv, "TTL", <<str_int(config.DEFAULT_TTL)>>) ELSE kv
        kv2 == IF msg_type = "DM" /\ ~dict_has(kv1, "TIMESTAMP")
               THEN dict_set(kv1, "TIMESTAMP", <<str_int(now)>>) ELSE kv1
    IN  IF msg_type \in {"TICTACTOE_INVITE", "TICTACTOE_RESULT"} /\ ~dict_has(kv2, "TIMESTAMP")
        THEN dict_set(kv2, "TIMESTAMP", <<str_int(now)>>) ELSE kv2

\* parse_message (lines 42-77)
parse_message(raw0, now) ==
    LET raw  == replace_crlf(raw0)
        body == IF Len(raw) >= 2 /\ SubSeq(raw, Len(raw) - 1, Len(raw)) = terminator
                THEN SubSeq(raw, 1, Len(raw) - 2)
                ELSE strip(raw, {NL})
        kv   == parse_lines(split(body, NL), 1, <<>>)
        msg_type == Str(upper(dict_get(kv, "TYPE", <<>>)))
    IN  IF msg_type = "" THEN ValueError("Missing TYPE", "", <<>>)
        ELSE LET required == IF msg_type \in DOMAIN REQUIRED_FIELDS
                             THEN REQUIRED_FIELDS[msg_type] ELSE <<>>
                 missing  == missing_fields(required, kv)
             IN  IF missing # <<>> THEN ValueError("Missing fields", msg_type, missing)
                 ELSE ParsedMessage(msg_type, with_defaults(msg_type, kv, now), raw)

----------------------------------------------------------------------------
(* The codec applied to records: format_message, then parse_message of the  *)
(* text it gave                                                             *)

\* the message kinds with the fields each requires, TICTACTOE_MOVE_RESPONSE
\* as REQUIRED_FIELDS has it
KindFields ==
    REQUIRED_FIELDS @@
    ("FILE_OFFER" :> <<"TYPE", "FROM", "TO", "FILENAME", "FILESIZE", "FILETYPE", "FILEID",
                       "TIMESTAMP", "TOKEN">>) @@
    ("FILE_CHUNK" :> <<"TYPE", "FROM", "TO", "FILEID", "CHUNK_INDEX", "TOTAL_CHUNKS",
                       "CHUNK_SIZE", "TOKEN", "DATA">>) @@
    ("FILE_RECEIVED" :> <<"TYPE", "FROM", "TO", "FILEID", "STATUS", "TIMESTAMP">>) @@
    ("LIKE" :> <<"TYPE", "FROM", "TO", "POST_TIMESTAMP", "ACTION", "TIMESTAMP", "TOKEN">>)
Kinds == DOMAIN KindFields

\* the record of a kind that carries the kind's fields but those of without
RecordWithout(kind, without) ==
    LET Carried(f) == f \notin without
        fields == SelectSeq(KindFields[kind], Carried)
    IN  [k \in 1 .. Len(fields) |->
            <<fields[k], IF fields[k] = "TYPE" THEN <<kind>> ELSE <<"v">> >>]

\* field values: a word, nothing, with a colon, with a space at the end, with
\* a space in front, with one newline, with a carriage return at the end,
\* with a carriage return inside, with the terminator
Values == { <<"v">>, <<>>, <<"v", COLON, "w">>, <<"v", SP>>, <<SP, "v">>,
            <<"v", NL, "w">>, <<"v", CR>>, <<"v", CR, "w">>, <<"v", NL, NL, "w">> }
\* TYPE values of the PING records: in upper case, in lower case, empty
PingTypes == { <<"PING">>, <<"ping">>, <<>> }

\* the frame of a step of the codec
CodecFrame == UNCHANGED <<gameState, rxAlive, fileState, peers, peerOrder, posts, dms,
                          groups, clock, threadState>>

\* a record is formatted when the last one formatted has been parsed and the
\* clock has gone on (or nothing was formatted yet)
Idle == lastOp.op \in {"init", "tick"}

\* format_message of a PING record with every combination of the values
FormatPing ==
    \E t \in PingTypes, u \in Values, s \in Values :
      \E r \in { << <<"TYPE", t>>, <<"USER_ID", u>>, <<"STATUS", s>> >> } :
        /\ Idle
        /\ lastOp' = [op |-> "format_message", id |-> "PING", status |-> "ok",
                      record |-> r, without |-> {}, raw |-> format_message(r)]
        /\ outbox' = <<>>
        /\ CodecFrame

\* format_message of a record of a kind without some of the kind's fields
FormatWithout ==
    \E kind \in Kinds :
      \E without \in (SUBSET {KindFields[kind][k] : k \in 1 .. Len(KindFields[kind])}) \ {{}} :
        \E r \in { RecordWithout(kind, without) } :
          /\ Idle
          /\ lastOp' = [op |-> "format_message", id |-> kind, status |-> "ok",
                        record |-> r, without |-> without, raw |-> format_message(r)]
          /\ outbox' = <<>>
          /\ CodecFrame

\* parse_message of the text format_message gave
ParseMessage ==
    /\ lastOp.op = "format_message"
    /\ \E p \in { parse_message(lastOp.raw, clock) } :
          lastOp' = [op |-> "parse_message", id |-> lastOp.id, status |-> p.status,
                     record |-> lastOp.record, without |-> lastOp.without,
                     raw |-> lastOp.raw, parsed |-> p]
    /\ outbox' = <<>>
    /\ CodecFrame

NextCodec == Tick \/ FormatPing \/ FormatWithout \/ ParseMessage

SpecCodec == Init /\ [][NextCodec]_vars

----------------------------------------------------------------------------
(* node.py: _on_udp, from the text of a datagram to the handler of its kind *)

\* the tables a handler works on
Tables ==
    [ peers |-> peers, peerOrder |-> peerOrder, posts |-> posts, dms |-> dms,
      groups |-> groups, games |-> games, fileBuffers |-> fileBuffers, disk |-> disk ]

\* kv.get(key, default) as a str
field(kv, key, default) == IF dict_has(kv, key) THEN Str(dict_get(kv, key, <<>>)) ELSE default

\* how _on_udp ended: status is "parse-error" (the return of line 83), "unknown"
\* (the else branch of line 250) or what the handler of the kind gives; moved
\* says that a make_move call returned True
Dispatched(status, tb, moved, out) ==
    [status |-> status, tables |-> tb, moved |-> moved, out |-> out]

\* a last branch that answers the sender
handle_unknown_Answers(tb, t) ==
    Dispatched("unknown", tb, FALSE, <<[type |-> "ACK", status |-> "UNKNOWN"]>>)

\* _handle, the else branch (lines 250-251)
handle_unknown(tb, t) == Dispatched("unknown", tb, FALSE, <<>>)

\* UDPTransport.port of the node (transport.py line 13, LSNP_PORT not set)
port == config.PORT

\* send_unicast (transport.py lines 77-79): the sendto call it makes
send_unicast(payload, host) == [to |-> <<host, port>>, data |-> payload]

\* Node.display_name and Node.status (lines 14-15, the default status); the
\* node has no avatar
display_name == <<"Alice">>
status == <<"Exploring", SP, "LSNP!">>

\* a reply that goes to the broadcast address
send_profile_unicast_Broadcasts(host) ==
    [type |-> "PROFILE"] @@
    send_unicast(format_message(<< <<"TYPE", <<"PROFILE">> >>, <<"USER_ID", <<Self>> >>,
                                   <<"DISPLAY_NAME", display_name>>,
                                   <<"STATUS", status>> >>),
                 config.BROADCAST_ADDR)

\* _send_profile_unicast (lines 438-453); type names the kind of the record
send_profile_unicast(host) ==
    [type |-> "PROFILE"] @@
    send_unicast(format_message(<< <<"TYPE", <<"PROFILE">> >>, <<"USER_ID", <<Self>> >>,
                                   <<"DISPLAY_NAME", display_name>>,
                                   <<"STATUS", status>> >>),
                 host)

\* a byte that is not part of any UTF-8 sequence
BAD == "\\xff"

\* data.decode(config.ENCODING, errors="ignore") (line 78)
decode(data) == SelectSeq(data, LAMBDA b : b # BAD)

\* _handle (lines 88-251); pm carries addr (line 80); now is time.time()
handle(tb, pm, now) ==
    LET kv == pm.kv
        t  == pm.type
        Game(h) == Dispatched(h.status, [tb EXCEPT !.games = h.games], h.moved, h.out)
        File(h) == Dispatched(h.status, [tb EXCEPT !.fileBuffers = h.buffers,
                                                   !.disk = h.disk], FALSE, h.out)
    IN  CASE t = "PROFILE" ->
               Dispatched("ok",
                   [tb EXCEPT
                       !.peers = handle_profile(tb.peers, field(kv, "USER_ID", ""),
                                     field(kv, "DISPLAY_NAME", field(kv, "USER_ID", "")),
                                     field(kv, "STATUS", ""), field(kv, "AVATAR_TYPE", "None"),
                                     field(kv, "AVATAR_ENCODING", "None"),
                                     field(kv, "AVATAR_DATA", "None"), now),
                       !.peerOrder = keys_after_set(tb.peerOrder, field(kv, "USER_ID", ""))],
                   FALSE, <<>>)
          [] t = "POST" ->
               Dispatched("ok",
                   [tb EXCEPT !.posts = handle_post(tb.posts, field(kv, "USER_ID", ""),
                                            field(kv, "CONTENT", ""), field(kv, "MESSAGE_ID", ""),
                                            field(kv, "TTL", "None"),
                                            field(kv, "TIMESTAMP", "None"), now)],
                   FALSE, <<>>)
          [] t = "DM" ->
               Dispatched("ok",
                   [tb EXCEPT !.dms = handle_dm(tb.dms, field(kv, "FROM", ""),
                                          field(kv, "CONTENT", ""), field(kv, "MESSAGE_ID", ""),
                                          field(kv, "TIMESTAMP", "None"),
                                          field(kv, "TOKEN", ""), now)],
                   FALSE, <<>>)
          [] t = "PING" ->
               Dispatched("ok", tb, FALSE,
                   IF pm.addr[1] # "" THEN <<send_profile_unicast(pm.addr[1])>> ELSE <<>>)
          [] t \in {"ACK", "FOLLOW", "UNFOLLOW", "LIKE", "GROUP_MESSAGE", "FILE_RECEIVED"} ->
               Dispatched("ok", tb, FALSE, <<>>)
          [] t = "TICTACTOE_INVITE" ->
               Game(handle_tictactoe_invite(tb.games, field(kv, "FROM", ""),
                        field(kv, "GAMEID", ""), field(kv, "SYMBOL", "")))
          [] t = "TICTACTOE_MOVE" ->
               Game(handle_tictactoe_move(tb.games, field(kv, "FROM", ""),
                        field(kv, "GAMEID", ""), field(kv, "POSITION", "0"),
                        field(kv, "SYMBOL", ""), field(kv, "TURN", "1")))
          [] t = "TICTACTOE_RESULT" ->
               Game(handle_tictactoe_result(tb.games, field(kv, "FROM", ""),
                        field(kv, "GAMEID", "")))
          [] t = "TICTACTOE_MOVE_RESPONSE" ->
               LET cells == split(dict_get(kv, "BOARD", <<>>), ",")
               IN  Game(handle_tictactoe_move_response(tb.games, field(kv, "FROM", ""),
                            field(kv, "GAMEID", ""), [k \in 1 .. Len(cells) |-> Str(cells[k])],
                            field(kv, "CURRENT_TURN", "1"), field(kv, "WHOSE_TURN", ""),
                            field(kv, "FINISHED", "false"),
                            field(kv, "WINNER", "")))
          [] t = "GROUP_CREATE" ->
               Dispatched("ok",
                   [tb EXCEPT !.groups = handle_group_create(tb.groups,
                                             field(kv, "GROUP_ID", "None"),
                                             field(kv, "GROUP_NAME", "None"),
                                             field(kv, "MEMBERS", "None"))],
                   FALSE, <<>>)
          [] t = "GROUP_UPDATE" ->
               Dispatched("ok",
                   [tb EXCEPT !.groups = handle_group_update(tb.groups,
                                             field(kv, "GROUP_ID", "None"),
                                             field(kv, "ADD", "None"),
                                             field(kv, "REMOVE", "None"))],
                   FALSE, <<>>)
          [] t = "FILE_OFFER" ->
               File(handle_file_offer(tb.fileBuffers, tb.disk, field(kv, "FROM", ""),
                        field(kv, "FILEID", ""), field(kv, "FILENAME", "file"),
                        field(kv, "FILESIZE", "0")))
          [] t = "FILE_CHUNK" ->
               File(handle_file_chunk(tb.fileBuffers, tb.disk, field(kv, "FROM", ""),
                        field(kv, "FILEID", ""), field(kv, "CHUNK_INDEX", "0"),
                        field(kv, "TOTAL_CHUNKS", "0"), field(kv, "DATA", "")))
          [] OTHER -> handle_unknown(tb, t)

\* an _on_udp that answers a datagram it cannot decode
on_udp_AnswersUndecoded(tb, data, addr, now) ==
    LET pm == parse_message(decode(data), now)
    IN  IF pm.status # "ok"
        THEN Dispatched("parse-error", tb, FALSE, <<[type |-> "ACK", status |-> "ERROR"]>>)
        ELSE handle(tb, pm @@ [addr |-> addr], now)

\* _on_udp (lines 76-86)
on_udp(tb, data, addr, now) ==
    LET pm == parse_message(decode(data), now)
    IN  IF pm.status # "ok" THEN Dispatched("parse-error", tb, FALSE, <<>>)
        ELSE handle(tb, pm @@ [addr |-> addr], now)

\* the records whose texts arrive: a PROFILE, a PING, an ACK, a game
\* invitation, a file offer, a GROUP_CREATE, two records of kinds _handle has
\* no branch for; then a record without TYPE, a PROFILE without STATUS, a POST
\* without TTL and a DM without TIMESTAMP
UdpRecords ==
    { << <<"TYPE", <<"PROFILE">> >>, <<"USER_ID", <<"bob">> >>,
         <<"DISPLAY_NAME", <<"Bob">> >>, <<"STATUS", <<"hi">> >> >>,
      << <<"TYPE", <<"PING">> >>, <<"USER_ID", <<"bob">> >> >>,
      << <<"TYPE", <<"ACK">> >>, <<"MESSAGE_ID", <<"m1">> >>, <<"STATUS", <<"hi">> >> >>,
      << <<"TYPE", <<"TICTACTOE_INVITE">> >>, <<"FROM", <<"bob">> >>, <<"TO", <<"alice">> >>,
         <<"GAMEID", <<"g1">> >>, <<"MESSAGE_ID", <<"m1">> >>, <<"SYMBOL", <<"X">> >>,
         <<"TIMESTAMP", <<"1">> >>, <<"TOKEN", <<"bob|9|game">> >> >>,
      << <<"TYPE", <<"FILE_OFFER">> >>, <<"FROM", <<"bob">> >>, <<"FILEID", <<"f1">> >>,
         <<"FILENAME", <<"a.txt">> >>, <<"FILESIZE", <<"3">> >> >>,
      << <<"TYPE", <<"GROUP_CREATE">> >>, <<"GROUP_ID", <<"g1">> >>,
         <<"MEMBERS", <<"bob">> >> >>,
      << <<"TYPE", <<"HELLO">> >>, <<"USER_ID", <<"bob">> >> >>,
      << <<"TYPE", <<"GROUP_DELETE">> >>, <<"GROUP_ID", <<"g1">> >> >>,
      << <<"USER_ID", <<"bob">> >>, <<"STATUS", <<"hi">> >> >>,
      << <<"TYPE", <<"PROFILE">> >>, <<"USER_ID", <<"carol">> >>,
         <<"DISPLAY_NAME", <<"Carol">> >> >>,
      RecordWithout("POST", {"TTL"}),
      RecordWithout("DM", {"TIMESTAMP"}) }

\* the texts of the datagrams: the records as format_message writes them, a
\* text without colon, and an empty datagram
UdpTexts == { format_message(r) : r \in UdpRecords } \cup { <<"hello", NL>>, <<>> }

\* the sender addresses of the datagrams: a node at the port of config.py and
\* one that was given another port
Addrs == { <<"10.0.0.2", config.PORT>>, <<"10.0.0.3", config.PORT + 1>> }

\* the tables, the datagrams sent and the history after _on_udp ended with h
AfterOnUdp(h) ==
    /\ peers' = h.tables.peers
    /\ peerOrder' = h.tables.peerOrder
    /\ posts' = h.tables.posts
    /\ dms' = h.tables.dms
    /\ groups' = h.tables.groups
    /\ games' = h.tables.games
    /\ fileBuffers' = h.tables.fileBuffers
    /\ disk' = h.tables.disk
    /\ outbox' = h.out
    /\ rxAlive' = (h.status # "raise")
    /\ accepted' = IF h.tables.games = games THEN accepted
                   ELSE [g \in GameIds |-> IF h.moved THEN accepted[g] + 1 ELSE 0]
    /\ notified' = [f \in FileIds |->
                       IF \E k \in 1 .. Len(h.out) :
                             h.out[k].type = "FILE_RECEIVED" /\ h.out[k].fileid = f
                       THEN notified[f] + 1 ELSE notified[f]]

\* one datagram goes through _on_udp
OnUdp ==
    \E text \in UdpTexts, addr \in Addrs :
      \E h \in { on_udp(Tables, text, addr, clock) } :
        /\ rxAlive
        /\ AfterOnUdp(h)
        /\ lastOp' = [op |-> "_on_udp", id |-> "", status |-> h.status, text |-> text]
        /\ UNCHANGED <<delivered, clock, threadState>>

NextUdp == Tick \/ OnUdp

SpecUdp == Init /\ [][NextUdp]_vars

----------------------------------------------------------------------------
(* transport.py: the receive loop, with the node's _on_udp as its callback *)

\* UDPTransport.on_message as Node.__init__ sets it (node.py line 22); "None"
\* when no callback is registered
on_message == "_on_udp"

\* a pass that leaves out the datagrams that decode to nothing
recv_loop_pass_SkipsUndecodable(data, addr, callback) ==
    IF decode(data) = <<>> THEN <<>>
    ELSE IF callback # "None" THEN <<[data |-> data, addr |-> addr]>>
    ELSE <<>>

\* one pass of _recv_loop after recvfrom returned (data, addr) (lines 68-71):
\* the calls of the callback it makes
recv_loop_pass(data, addr, callback) ==
    IF data = <<>> THEN <<>>
    ELSE IF callback # "None" THEN <<[data |-> data, addr |-> addr]>>
    ELSE <<>>

\* the datagrams recvfrom returns: those of UdpTexts (the empty one among
\* them) and one whose only byte is not UTF-8
Received == UdpTexts \cup { <<BAD>> }

\* recvfrom returns a datagram and the pass of the loop runs, the callback
\* included.  After stop() cleared _running the loop is still inside recvfrom
\* and makes one more pass when a datagram arrives before the socket is closed.
RecvLoop ==
    \E data \in Received, addr \in Addrs :
      \E calls \in { recv_loop_pass(data, addr, on_message) } :
        \E h \in { IF calls = <<>> THEN Dispatched("skip", Tables, FALSE, <<>>)
                   ELSE on_udp(Tables, calls[1].data, calls[1].addr, clock) } :
          /\ pc["rx"] \in {"recv", "closing"}
          /\ AfterOnUdp(h)
          /\ pc' = [pc EXCEPT !["rx"] = IF h.status = "raise" \/ @ = "closing"
                                        THEN "dead" ELSE "recv"]
          /\ lastOp' = [op |-> "_recv_loop", id |-> "", status |-> h.status,
                        data |-> data, addr |-> addr, calls |-> calls]
          /\ UNCHANGED <<delivered, clock, lock, local, presence>>

\* UDPTransport.stop (lines 53-60), called by Node.stop
UdpStop ==
    /\ pc["main"] = "sleep"
    /\ pc' = [pc EXCEPT !["main"] = "stopped",
                        !["rx"] = IF @ = "recv" THEN "closing" ELSE @]
    /\ lastOp' = [op |-> "stop", id |-> "", status |-> "ok"]
    /\ outbox' = <<>>
    /\ UNCHANGED <<gameState, rxAlive, fileState, storeState, lock, local, presence>>

\* recvfrom raises OSError on the closed socket and the loop ends (lines 66-67)
RecvEnd ==
    /\ pc["rx"] = "closing"
    /\ pc' = [pc EXCEPT !["rx"] = "dead"]
    /\ lastOp' = [op |-> "OSError", id |-> "", status |-> "ok"]
    /\ outbox' = <<>>
    /\ UNCHANGED <<gameState, rxAlive, fileState, storeState, lock, local, presence>>

NextTransport == NodeStart \/ RecvLoop \/ UdpStop \/ RecvEnd

SpecTransport == Init /\ [][NextTransport]_vars

----------------------------------------------------------------------------
(* messages.py: is_token_like.  A token is a text of single characters. *)

BAR == "|"
Digits == {"0", "1", "2", "3", "4", "5", "6", "7", "8", "9"}

\* int(ts) does not raise ValueError: whitespace around, an optional sign, and
\* at least one digit (the texts used here hold no underscore)
int_accepts(ts) ==
    LET s    == strip(ts, Whitespace)
        body == IF s # <<>> /\ s[1] \in {"+", "-"} THEN Tail(s) ELSE s
    IN  body # <<>> /\ \A k \in 1 .. Len(body) : body[k] \in Digits

\* a check that does not look at the scope
is_token_like_AnyScope(token) ==
    LET parts == split(token, BAR)
    IN  IF Len(parts) # 3 THEN FALSE
        ELSE IF parts[1] = <<>> THEN FALSE
        ELSE int_accepts(parts[2])

\* is_token_like (lines 80-92)
is_token_like(token) ==
    LET parts == split(token, BAR)
    IN  IF Len(parts) # 3 THEN FALSE
        ELSE IF parts[1] = <<>> \/ parts[3] = <<>> THEN FALSE
        ELSE int_accepts(parts[2])

\* the characters of the tokens: a letter, a digit, a sign, the bar and a space
TokenChars == {"a", "7", "-", BAR, SP}
\* the longest token
MaxToken == 5
\* every text of at most MaxToken characters
TokenTexts == UNION { [1 .. n -> TokenChars] : n \in 0 .. MaxToken }

\* is_token_like is applied to a token
IsTokenLike ==
    \E token \in TokenTexts :
        /\ Idle
        /\ lastOp' = [op |-> "is_token_like", id |-> "", status |-> "ok",
                      token |-> token, result |-> is_token_like(token)]
        /\ outbox' = <<>>
        /\ CodecFrame

NextToken == Tick \/ IsTokenLike

SpecToken == Init /\ [][NextToken]_vars

----------------------------------------------------------------------------
(* The node receiving invitations and the moves the command broadcasts with *)
(* SYMBOL and TURN left to the receiver (cli.py lines 161-179)              *)

\* SYMBOL and TURN of the moves: both AUTO as the command sends them, AUTO
\* beside a TURN that is not a numeral, and AUTO beside a SYMBOL no player holds
AutoFields == { <<"AUTO", "AUTO">>, <<"AUTO", "x">>, <<"Z", "AUTO">> }
\* POSITION values of the moves: not a numeral, and the five cells of MovePositions
AutoPositions == {"x", "0", "1", "2", "3", "4"}

\* a TICTACTOE_MOVE record with AUTO; passed is what the handler came to pass
\* to make_move
RecvAutoMove ==
    \E g \in GameIds, from \in Users, pos \in AutoPositions, st \in AutoFields :
        /\ rxAlive
        /\ \E h \in {handle_tictactoe_move(games, from, g, pos, st[1], st[2])} :
              /\ games' = h.games
              /\ outbox' = h.out
              /\ rxAlive' = (h.status # "raise")
              /\ accepted' = AcceptedAfter(g, h)
              /\ lastOp' = [op |-> "TICTACTOE_MOVE", id |-> g, status |-> h.status,
                            from |-> from, position |-> pos, symbol |-> st[1],
                            turn |-> st[2],
                            passed |-> move_arguments(games, from, g, pos, st[1], st[2])]
        /\ UNCHANGED <<fileState, storeState, threadState>>

NextAuto == RecvInvite \/ RecvAutoMove

SpecAuto == Init /\ [][NextAuto]_vars

----------------------------------------------------------------------------
(* The node receiving bob's game records more than once and in any order.   *)
(* lastOp carries, as history, the TICTACTOE_MOVE records accepted so far.  *)

\* the TICTACTOE_MOVE records of bob's for g1, as <<POSITION, SYMBOL, TURN>>:
\* his first move with explicit fields and as the command broadcasts it
DupMoves == { <<p, st[1], st[2]>> : p \in {"0", "1"},
                                   st \in { <<"X", "1">>, <<"AUTO", "AUTO">> } }

\* the records accepted before this step
Seen == IF "seen" \in DOMAIN lastOp THEN lastOp.seen ELSE {}

\* the frame and the history of a step that handled a record of game g with h
DupFinish(op, g, h) ==
    /\ games' = h.games
    /\ outbox' = h.out
    /\ rxAlive' = (h.status # "raise")
    /\ accepted' = IF op = "TICTACTOE_INVITE" THEN [accepted EXCEPT ![g] = 0]
                   ELSE AcceptedAfter(g, h)
    /\ UNCHANGED <<fileState, storeState, threadState>>

\* bob's invitation, or a copy of it
DupInvite ==
    \E g \in GameIds :
      \E h \in {handle_tictactoe_invite(games, "bob", g, "X")} :
        /\ rxAlive
        /\ DupFinish("TICTACTOE_INVITE", g, h)
        /\ lastOp' = [op |-> "TICTACTOE_INVITE", id |-> g, status |-> h.status,
                      seen |-> Seen]

\* one of bob's moves, or a copy of it; again says that the record was accepted
\* before
DupMove ==
    \E g \in GameIds, m \in DupMoves :
      \E h \in {handle_tictactoe_move(games, "bob", g, m[1], m[2], m[3])} :
        /\ rxAlive
        /\ DupFinish("TICTACTOE_MOVE", g, h)
        /\ lastOp' = [op |-> "TICTACTOE_MOVE", id |-> g, status |-> h.status,
                      record |-> m, again |-> m \in Seen,
                      seen |-> IF h.moved THEN Seen \cup {m} ELSE Seen]

\* bob's result record, or a copy of it
DupResult ==
    \E g \in GameIds :
      \E h \in {handle_tictactoe_result(games, "bob", g)} :
        /\ rxAlive
        /\ DupFinish("TICTACTOE_RESULT", g, h)
        /\ lastOp' = [op |-> "TICTACTOE_RESULT", id |-> g, status |-> h.status,
                      seen |-> Seen]

NextDup == DupInvite \/ DupMove \/ DupResult

SpecDup == Init /\ [][NextDup]_vars

----------------------------------------------------------------------------
(* Properties of the game table under SpecGame *)

\* the players of game G that are assigned symbol s
HoldersOf(G, s) ==
    (IF G.player1_symbol = s THEN {G.player1} ELSE {}) \cup
    (IF G.player2_symbol = s THEN {G.player2} ELSE {})

\* the 8 triples of the 3x3 grid, from the grid's geometry: row r holds the
\* cells 3r, 3r+1, 3r+2, column c the cells c, c+3, c+6, and the two diagonals
WinTriples ==
    {<<3 * r, 3 * r + 1, 3 * r + 2>> : r \in 0 .. 2} \cup
    {<<c, c + 3, c + 6>> : c \in 0 .. 2} \cup
    {<<0, 4, 8>>, <<2, 4, 6>>}

\* the triples of WinTriples that hold three equal non-empty cells of board b
MatchingTriples(b) ==
    {t \in WinTriples : /\ b[t[1] + 1] # ""
                        /\ b[t[1] + 1] = b[t[2] + 1]
                        /\ b[t[2] + 1] = b[t[3] + 1]}

BoardFull(b) == \A i \in 1 .. Len(b) : b[i] # ""

\* C1: after N accepted make_move calls on a game made by create_game the
\* turn counter is N + 1, and it is the turn of the holder of X when N is
\* even and of the holder of O when N is odd.
C1_TurnCounterAndAlternation ==
    \A g \in DOMAIN games :
        LET G == games[g]
            N == accepted[g]
        IN  /\ G.current_turn = N + 1
            /\ (N % 2 = 0) => G.whose_turn \in HoldersOf(G, "X")
            /\ (N % 2 = 1) => G.whose_turn \in HoldersOf(G, "O")

\* the part of C1 that does not name the symbol O: the counter is N + 1 and
\* the turn is the X-holder's when N is even, the other player's when odd
C1_CounterAndTurnOfOtherPlayer ==
    \A g \in DOMAIN games :
        LET G == games[g]
            N == accepted[g]
        IN  /\ G.current_turn = N + 1
            /\ (N % 2 = 0) => G.whose_turn \in HoldersOf(G, "X")
            /\ (N % 2 = 1) => /\ G.whose_turn \in {G.player1, G.player2}
                              /\ G.player1 # G.player2
                                    => G.whose_turn \notin HoldersOf(G, "X")

\* C2: once a game is finished, a make_move on its id is rejected and leaves
\* the game (board, turn counter, whose_turn, winner, finished) as it was.
C2_FinishedIsFinal ==
    [][\A g \in DOMAIN games :
          (games[g].finished /\ lastOp'.op = "make_move" /\ lastOp'.id = g)
              => /\ lastOp'.status = "fail"
                 /\ g \in DOMAIN games'
                 /\ games'[g] = games[g]]_vars

\* a make_move has just been rejected on a finished game
C2_Witness ==
    /\ lastOp.op = "make_move" /\ lastOp.status = "fail"
    /\ lastOp.id \in DOMAIN games
    /\ games[lastOp.id].finished

\* C3: a make_move that returns failure leaves the game table as it was.
C3_RejectedMoveNoEffect ==
    [][(lastOp'.op = "make_move" /\ lastOp'.status = "fail") => games' = games]_vars

\* a make_move has just been rejected on a game that is under way, so for one
\* of the reasons that follow the finished test
C3_Witness ==
    /\ lastOp.op = "make_move" /\ lastOp.status = "fail"
    /\ lastOp.id \in DOMAIN games
    /\ games[lastOp.id].started
    /\ ~games[lastOp.id].finished

\* C5: after an accepted move the game is finished with a player as winner
\* exactly when one of the 8 triples holds three equal non-empty cells, the
\* winner then holds that symbol and winning_line is such a triple; it is
\* finished as a draw exactly when no triple matches and no cell is empty;
\* otherwise it is not finished.
C5_TerminationMatchesBoard ==
    \A g \in DOMAIN games :
        LET G == games[g]
            m == MatchingTriples(G.board)
        IN  G.started =>
              /\ (G.finished /\ G.winner \notin {"DRAW", "None"}) <=> (m # {})
              /\ (m # {}) => /\ G.winning_line \in m
                             /\ G.winner \in HoldersOf(G, G.board[G.winning_line[1] + 1])
              /\ (G.finished /\ G.winner = "DRAW") <=> (m = {} /\ BoardFull(G.board))
              /\ (m = {} /\ ~BoardFull(G.board)) => ~G.finished

\* a game won on the anti-diagonal
C5_Witness ==
    \E g \in DOMAIN games :
        /\ games[g].finished
        /\ games[g].winning_line = <<2, 4, 6>>
        /\ games[g].winner \in Players

\* a game that ended in a draw after nine accepted moves
C5_WitnessDraw ==
    \E g \in DOMAIN games :
        games[g].finished /\ games[g].winner = "DRAW" /\ accepted[g] = 9

----------------------------------------------------------------------------
(* Properties of the node's game handlers under SpecNode *)

\* C4: handling a TICTACTOE_MOVE record whose move is rejected leaves the game
\* table as it was, also when the table did not hold the game id.
C4_RejectedRecordNoEffect ==
    [][(lastOp'.op = "TICTACTOE_MOVE" /\ lastOp'.status \in {"fail", "drop"})
          => games' = games]_vars

\* C6: in every game of the table the two players hold X and O, one each, and
\* a game just made by a TICTACTOE_INVITE has the sender of the invite as the
\* first player and gives the first turn to the X-holder.
C6_SymbolAssignment ==
    \A g \in DOMAIN games :
        LET G == games[g]
        IN  /\ G.player1_symbol \in {"X", "O"}
            /\ G.player2_symbol = (IF G.player1_symbol = "X" THEN "O" ELSE "X")
            /\ (lastOp.op = "TICTACTOE_INVITE" /\ lastOp.id = g)
                   => /\ G.whose_turn \in HoldersOf(G, "X")
                      /\ G.player2 = Self

----------------------------------------------------------------------------
(* Properties of the reassembly buffer *)

\* the indices delivered so far in the three-chunk transfer
DeliveredIndexes == {delivered[k].idx : k \in 1 .. Len(delivered)}

\* the decoded payload of the delivery that carried index i
PayloadOf(i) ==
    B64[delivered[CHOOSE k \in 1 .. Len(delivered) : delivered[k].idx = i].data]

\* the files on the disk that were assembled for transfer f
FilesOf(f) == {k \in 1 .. Len(disk) : disk[k].file_id = f}

\* C7: in a transfer whose chunks carry TOTAL_CHUNKS 3, deliveries of the
\* indices 1 and 2 alone never complete it; the indices 0, 1, 2 delivered once
\* each, in any order, complete it once, on the third chunk, and the file is
\* payload(0) payload(1) payload(2).
C7_ThreeChunkTransfer ==
    \A f \in FileIds :
        /\ DeliveredIndexes \subseteq {1, 2} => (FilesOf(f) = {} /\ notified[f] = 0)
        /\ Len(delivered) < 3 => (FilesOf(f) = {} /\ notified[f] = 0)
        /\ (Len(delivered) = 3 /\ DeliveredIndexes = {0, 1, 2})
              => /\ Cardinality(FilesOf(f)) = 1
                 /\ notified[f] = 1
                 /\ lastOp = [op |-> "FILE_CHUNK", id |-> f, status |-> "complete"]
                 /\ disk[1].data = PayloadOf(0) \o PayloadOf(1) \o PayloadOf(2)
                 /\ fileBuffers[f].save_path # <<>>

\* the chunks arrived in the order 2, 0, 1 with three different payloads and
\* the transfer is complete
C7_Witness ==
    /\ Len(delivered) = 3
    /\ delivered[1].idx = 2 /\ delivered[2].idx = 0 /\ delivered[3].idx = 1
    /\ delivered[1].data = "Qw==" /\ delivered[2].data = "QQ==" /\ delivered[3].data = "Qg=="
    /\ Len(disk) = 1

\* four deliveries of the indices 1 and 2 alone
C7_WitnessOnlyOneTwo ==
    Len(delivered) = 4 /\ DeliveredIndexes = {1, 2}

\* C8: once a transfer has been assembled, a further FILE_CHUNK for its id
\* changes none of its stored chunks and completes nothing; per transfer id
\* the file is written and FILE_RECEIVED is sent at most once.
C8_CompletedAtMostOnce ==
    [][\A f \in FileIds :
          /\ (/\ f \in DOMAIN fileBuffers
              /\ fileBuffers[f].save_path # <<>>
              /\ lastOp'.op = "FILE_CHUNK" /\ lastOp'.id = f)
                 => /\ fileBuffers'[f].chunks = fileBuffers[f].chunks
                    /\ disk' = disk
                    /\ notified' = notified
          /\ notified'[f] <= 1
          /\ Cardinality({k \in 1 .. Len(disk') : disk'[k].file_id = f}) <= 1]_vars

\* C9: a transfer is never assembled while an index of 0..total-1 has no
\* stored chunk, whatever the number of stored indices: the handler then
\* returns without writing a file, sending FILE_RECEIVED or raising.
C9_NoAssemblyWithMissingIndex ==
    [][\A f \in FileIds :
          (lastOp'.op = "FILE_CHUNK" /\ lastOp'.id = f /\ f \in DOMAIN fileBuffers')
              => LET B == fileBuffers'[f]
                 IN  (/\ B.total_chunks # <<>>
                      /\ \E i \in 0 .. B.total_chunks[1] - 1 : i \notin DOMAIN B.chunks)
                         => /\ disk' = disk
                            /\ notified' = notified
                            /\ outbox' = <<>>
                            /\ B.save_path = <<>>
                            /\ lastOp'.status # "raise"]_vars

\* the handler has just returned at line 584: as many indices stored as the
\* total says, one of them outside 0..total-1, and an index of the range missing
C9_Witness ==
    /\ lastOp.op = "FILE_CHUNK" /\ lastOp.status = "deferred"
    /\ LET B == fileBuffers[lastOp.id]
       IN  /\ B.received_count >= B.total_chunks[1]
           /\ \E i \in DOMAIN B.chunks : i \notin 0 .. B.total_chunks[1] - 1
           /\ \E i \in 0 .. B.total_chunks[1] - 1 : i \notin DOMAIN B.chunks
           /\ disk = <<>>

\* C10: once a chunk is stored for a transfer id, no later FILE_CHUNK changes
\* the recorded total: it stays the TOTAL_CHUNKS of the first chunk.
C10_TotalIsFirstChunks ==
    [][\A f \in FileIds :
          (/\ f \in DOMAIN fileBuffers
           /\ DOMAIN fileBuffers[f].chunks # {}
           /\ lastOp'.op = "FILE_CHUNK" /\ lastOp'.id = f)
              => fileBuffers'[f].total_chunks = fileBuffers[f].total_chunks]_vars

\* the part of C10 the code keeps: a recorded total other than 0 is not changed
\* by a later FILE_CHUNK
C10_NonZeroTotalIsKept ==
    [][\A f \in FileIds :
          (/\ f \in DOMAIN fileBuffers
           /\ ~total_unset(fileBuffers[f])
           /\ lastOp'.op = "FILE_CHUNK" /\ lastOp'.id = f)
              => fileBuffers'[f].total_chunks = fileBuffers[f].total_chunks]_vars

\* C11: a FILE_CHUNK for a transfer id the table does not hold creates the
\* record, holding that chunk alone; and a transfer, created by an offer or by
\* its first chunk, is assembled by a FILE_CHUNK exactly when every index of
\* 0..total-1 is then stored.
C11_LazyTransferCompletesAlike ==
    [][\A f \in FileIds :
          (lastOp'.op = "FILE_CHUNK" /\ lastOp'.id = f)
              => /\ f \in DOMAIN fileBuffers'
                 /\ f \notin DOMAIN fileBuffers
                       => /\ fileBuffers'[f].filename = BinName(f)
                          /\ DOMAIN fileBuffers'[f].chunks \subseteq {-1, 0, 1, 2}
                          /\ Cardinality(DOMAIN fileBuffers'[f].chunks) =
                                 IF lastOp'.status = "drop" THEN 0 ELSE 1
                 /\ LET B == fileBuffers'[f]
                    IN  (/\ lastOp'.status # "drop"
                         /\ B.total_chunks # <<>>
                         /\ B.total_chunks[1] > 0)
                            => (lastOp'.status = "complete"
                                  <=> \A i \in 0 .. B.total_chunks[1] - 1 :
                                          i \in DOMAIN B.chunks)]_vars

\* a transfer of two chunks that no offer announced has been assembled
C11_Witness ==
    \E f \in FileIds :
        /\ lastOp = [op |-> "FILE_CHUNK", id |-> f, status |-> "complete"]
        /\ fileBuffers[f].filename = BinName(f)
        /\ fileBuffers[f].total_chunks = <<2>>
        /\ Len(disk) = 1

\* a transfer of two chunks that was offered first has been assembled
C11_WitnessOffered ==
    \E f \in FileIds :
        /\ lastOp = [op |-> "FILE_CHUNK", id |-> f, status |-> "complete"]
        /\ fileBuffers[f].filename = "a.txt"
        /\ fileBuffers[f].total_chunks = <<2>>
        /\ Len(disk) = 1

----------------------------------------------------------------------------
(* Properties of the receive loop under SpecNode *)

\* C12: whatever the field values of the records handled so far, the receive
\* loop is still running: no record's handling has ended the thread.
C12_ReceiveLoopSurvives == rxAlive

----------------------------------------------------------------------------
(* Properties of the threads under SpecThreads *)

\* the threads that are inside a handling pass of an inbound record
Handling == {t \in Threads : pc[t] = "handle"}

\* the operations of a step that read or write the game table
TableOps == { "TICTACTOE_INVITE", "TICTACTOE_MOVE", "TICTACTOE_MOVE_RESPONSE",
              "TICTACTOE_RESULT", "get_game", "make_move" }

\* C13: at any moment at most one inbound record is inside its handling pass,
\* the pass runs inside the node's lock from its beginning to its end, and no
\* other record's pass begins before the lock is left.
C13_OneRecordAtATime ==
    /\ Cardinality(Handling) <= 1
    /\ \A t \in Handling : lock = t /\ local[t] \in Datagrams
    /\ Handling = {} => (lock = "None" /\ local["rx"] = <<>>)

\* a record is inside its handling pass after an earlier record's pass ended
C13_Witness ==
    /\ Handling = {"rx"}
    /\ local["rx"].type = "TICTACTOE_MOVE"
    /\ "g1" \in DOMAIN games
    /\ lock = "rx"

\* the command is between its lookup of game g and its make_move while an
\* inbound record for g is inside its handling pass
Interleaved ==
    /\ pc["main"] = "got"
    /\ pc["rx"] = "handle"
    /\ local["rx"].type \in {"TICTACTOE_MOVE", "TICTACTOE_MOVE_RESPONSE"}
    /\ local["rx"].gameid = local["main"].game_id

\* C14: every step that reads or writes the game table is made by the thread
\* that is inside the node's lock, and the move of the `tictactoe move`
\* command never interleaves with the handling of an inbound TICTACTOE_MOVE
\* or TICTACTOE_MOVE_RESPONSE for the same game.
C14_TablesOnlyUnderLock ==
    [][/\ lastOp'.op \in TableOps => lock = lastOp'.thread
       /\ ~Interleaved']_vars

\* the part of C14 the code keeps: the receive thread reads and writes the
\* table inside the lock
C14_ReceivePathUnderLock ==
    [][(lastOp'.op \in TableOps /\ lastOp'.thread = "rx") => lock = "rx"]_vars

\* C15: while the node runs the presence loop is running, and the broadcasts
\* it has sent alternate between PROFILE and PING.
C15_PresenceAlternates ==
    /\ Running => pc["presence"] # "dead"
    /\ \A k \in 1 .. Len(presence.sent) - 1 : presence.sent[k] # presence.sent[k + 1]

----------------------------------------------------------------------------
(* Properties of the store under SpecPeers and SpecLog *)

\* the step handled a PROFILE record for a peer the map already held
ProfileOfKnownPeer(u) ==
    lastOp'.op = "PROFILE" /\ lastOp'.id = u /\ u \in DOMAIN peers

\* C16: a second update_peer for an identity, whatever the display name,
\* leaves one entry for it, whose last_seen is the time of that call and whose
\* display name is the name given if it is not empty, the earlier name otherwise.
C16_SecondUpdateKeepsOneEntry ==
    [][\A u \in ProfileUsers :
          ProfileOfKnownPeer(u)
              => /\ DOMAIN peers' = DOMAIN peers
                 /\ peers'[u].user_id = u
                 /\ peers'[u].last_seen = clock
                 /\ peers'[u].display_name =
                        IF lastOp'.display_name # "" THEN lastOp'.display_name
                        ELSE peers[u].display_name]_vars

\* bob was updated with another name at a later time: the entry made under
\* the name "Bob" at time 0 carries the name "Rob" and the time 1 ...
C16_Witness ==
    /\ lastOp.op = "PROFILE" /\ lastOp.id = "bob" /\ lastOp.display_name = "Rob"
    /\ DOMAIN peers = {"bob"}
    /\ peers["bob"].display_name = "Rob"
    /\ peers["bob"].last_seen = 1
    /\ peers["bob"].avatar # <<>>
    /\ lastOp.avatar = <<"None", "None", "None">>

\* ... and an update with the empty name left the earlier name
C16_WitnessEmptyName ==
    /\ lastOp.op = "PROFILE" /\ lastOp.id = "bob" /\ lastOp.display_name = ""
    /\ peers["bob"].display_name = "Bob"
    /\ peers["bob"].last_seen = 1

\* C17: update_peer for a known peer without avatar arguments (a PROFILE
\* record with no AVATAR_* field) leaves the peer's avatar as it was.
C17_AbsentAvatarKeepsAvatar ==
    [][\A u \in ProfileUsers :
          (ProfileOfKnownPeer(u) /\ lastOp'.avatar = <<"None", "None", "None">>)
              => peers'[u].avatar = peers[u].avatar]_vars

\* a PROFILE record without AVATAR_* fields was handled for a peer that has an
\* avatar
C17_Witness ==
    /\ lastOp.op = "PROFILE" /\ lastOp.avatar = <<"None", "None", "None">>
    /\ lastOp.id \in DOMAIN peers
    /\ peers[lastOp.id].avatar # <<>>

\* the AVATAR_* fields are present and are empty or are not an avatar: a
\* field is empty or the data is not base64
EmptyOrInvalidAvatar(a) ==
    /\ \A i \in 1 .. 3 : a[i] # "None"
    /\ \/ \E i \in 1 .. 3 : a[i] = ""
       \/ ~B64Valid(a[3])

\* C18: update_peer for a known peer that has an avatar, with avatar arguments
\* that are present but empty or invalid, leaves the peer without avatar.
C18_EmptyAvatarClearsAvatar ==
    [][\A u \in ProfileUsers :
          (/\ ProfileOfKnownPeer(u)
           /\ peers[u].avatar # <<>>
           /\ EmptyOrInvalidAvatar(lastOp'.avatar))
              => peers'[u].avatar = <<>>]_vars

\* C19: the peers map gains the USER_ID of a handled PROFILE record and nothing
\* else, each entry under its own identity; no entry is ever removed, and a
\* record of another kind leaves the map as it was.
C19_PeersFollowProfiles ==
    [][/\ DOMAIN peers \subseteq DOMAIN peers'
       /\ \A u \in DOMAIN peers' : peers'[u].user_id = u
       /\ lastOp'.op = "PROFILE" => DOMAIN peers' = DOMAIN peers \cup {lastOp'.id}
       /\ lastOp'.op # "PROFILE" => peers' = peers]_vars

\* two identities have sent PROFILE records, one of them several, and a
\* record of another kind was handled last
C19_Witness ==
    /\ DOMAIN peers = {"bob", "carol"}
    /\ peers["bob"].last_seen > peers["carol"].last_seen
    /\ lastOp.op \in OtherKinds \cup {"POST", "DM"}

\* s is an initial segment of t
IsPrefix(s, t) == Len(s) <= Len(t) /\ SubSeq(t, 1, Len(s)) = s

\* C20: the post log and the DM log only grow at the end: every entry keeps
\* its position and its field values, and each handled POST (DM) record
\* appends one entry with the record's message identifier, also when the log
\* holds that identifier already.
C20_LogsAppendOnly ==
    [][/\ IsPrefix(posts, posts')
       /\ IsPrefix(dms, dms')
       /\ lastOp'.op = "POST"
             => /\ Len(posts') = Len(posts) + 1
                /\ posts'[Len(posts')].message_id = lastOp'.message_id
                /\ dms' = dms
       /\ lastOp'.op = "DM"
             => /\ Len(dms') = Len(dms) + 1
                /\ dms'[Len(dms')].message_id = lastOp'.message_id
                /\ posts' = posts
       /\ lastOp'.op \notin {"POST", "DM"} => (posts' = posts /\ dms' = dms)]_vars

\* the same POST record and the same DM record were each handled twice
C20_Witness ==
    /\ Len(posts) = 2 /\ posts[1] = posts[2]
    /\ Len(dms) = 2 /\ dms[1] = dms[2]
    /\ lastOp.op = "PROFILE"

----------------------------------------------------------------------------
(* Properties of the filtered views under SpecViews *)

\* entry m of a log is valid at time now: no expiry, or an expiry not before now
ValidAt(m, now) == m.expires_at = <<>> \/ m.expires_at[1] >= now

\* the entries of log, in the log's order, that user_id wrote and that are
\* valid at time now
ValidEntriesOf(log, user_id, now) ==
    LET Wanted(m) == m.user_id = user_id /\ ValidAt(m, now)
    IN  SelectSeq(log, Wanted)

\* C21: list_posts_by_user and list_dms_by_user with only_valid set return, in
\* append order, exactly the entries of the given author that have no expiry
\* or an expiry not less than the current time; an entry whose expiry is less
\* than the current time is not in the result.
C21_ListingsKeepValidEntries ==
    /\ (lastOp.op = "list_posts_by_user" /\ lastOp.only_valid)
          => /\ lastOp.result = ValidEntriesOf(posts, lastOp.id, clock)
             /\ \A k \in 1 .. Len(lastOp.result) :
                   lastOp.result[k].expires_at = <<>>
                       \/ ~(lastOp.result[k].expires_at[1] < clock)
    /\ (lastOp.op = "list_dms_by_user" /\ lastOp.only_valid)
          => /\ lastOp.result = ValidEntriesOf(dms, lastOp.id, clock)
             /\ \A k \in 1 .. Len(lastOp.result) :
                   lastOp.result[k].expires_at = <<>>
                       \/ ~(lastOp.result[k].expires_at[1] < clock)

\* bob's posts were listed when the log held a post of his that had expired
\* and, after it, one that expires at the time of the listing
C21_Witness ==
    /\ lastOp.op = "list_posts_by_user" /\ lastOp.only_valid /\ lastOp.id = "bob"
    /\ Len(posts) = 2
    /\ posts[1].user_id = "bob" /\ posts[1].expires_at = <<0>>
    /\ posts[2].user_id = "bob" /\ posts[2].expires_at = <<clock>>
    /\ clock = 1
    /\ lastOp.result = <<posts[2]>>

\* bob's direct messages were listed when the log held one of his without
\* expiry, and one of carol's
C21_WitnessDms ==
    /\ lastOp.op = "list_dms_by_user" /\ lastOp.only_valid /\ lastOp.id = "bob"
    /\ Len(dms) = 2
    /\ dms[1].user_id = "carol"
    /\ dms[2].user_id = "bob" /\ dms[2].expires_at = <<>>
    /\ lastOp.result = <<dms[2]>>

----------------------------------------------------------------------------
(* Properties of resolve_user_id under SpecResolve *)

\* the identities of the peers whose display name is q, ignoring case
NamedLike(q) == {u \in DOMAIN peers : Lower[peers[u].display_name] = Lower[q]}

\* C22: resolve_user_id returns the query itself when the query is a known
\* identity, even if another peer's display name equals the query; otherwise
\* the identity of a peer whose display name equals the query ignoring case;
\* otherwise None.
C22_ResolveIdentityThenName ==
    lastOp.op = "resolve_user_id"
        => /\ lastOp.id \in DOMAIN peers => lastOp.result = lastOp.id
           /\ (lastOp.id \notin DOMAIN peers /\ NamedLike(lastOp.id) # {})
                 => lastOp.result \in NamedLike(lastOp.id)
           /\ (lastOp.id \notin DOMAIN peers /\ NamedLike(lastOp.id) = {})
                 => lastOp.result = "None"

\* "bob" was resolved when bob is a known identity and carol, who comes first
\* in the table, has the display name "bob"
C22_Witness ==
    /\ lastOp.op = "resolve_user_id" /\ lastOp.id = "bob"
    /\ peerOrder = <<"carol", "bob">>
    /\ peers["carol"].display_name = "bob"
    /\ peers["bob"].display_name = "Carol"
    /\ lastOp.result = "bob"

\* "BOB" was resolved to carol, whose display name is "Bob"; "dave" to nobody
C22_WitnessByName ==
    /\ lastOp.op = "resolve_user_id" /\ lastOp.id = "BOB"
    /\ DOMAIN peers = {"carol"} /\ peers["carol"].display_name = "Bob"
    /\ lastOp.result = "carol"

----------------------------------------------------------------------------
(* Properties of the groups under SpecGroups *)

\* the operations and records that name a group
GroupOps == {"create_or_update_group", "group_add_members", "group_remove_members",
             "GROUP_CREATE", "GROUP_UPDATE"}

\* the elements of a list
Elems(list) == {list[k] : k \in 1 .. Len(list)}

\* the members of group g in table gs; a group the table does not hold has none
MembersIn(gs, g) == IF g \in DOMAIN gs THEN gs[g].members ELSE {}

\* C23: whatever the sequence of group operations and GROUP_CREATE /
\* GROUP_UPDATE records, every step leaves each group of the table with the
\* members it had, joined with the members the step adds to it and then less
\* the members the step removes from it; a group of the table stays in the
\* table, and it loses a member only when the step removes that member from it.
C23_MembersByUnionAndDifference ==
    [][/\ DOMAIN groups \subseteq DOMAIN groups'
       /\ \A g \in DOMAIN groups' :
             groups'[g].members =
                 IF lastOp'.op \in GroupOps /\ lastOp'.id = g
                 THEN (MembersIn(groups, g) \cup Elems(lastOp'.add)) \ Elems(lastOp'.remove)
                 ELSE MembersIn(groups, g)
       /\ \A g \in DOMAIN groups :
             \A m \in groups[g].members \ groups'[g].members :
                 /\ lastOp'.op \in {"group_remove_members", "GROUP_UPDATE"}
                 /\ lastOp'.id = g
                 /\ m \in Elems(lastOp'.remove)]_vars

\* a GROUP_UPDATE record that adds bob to and removes carol from group g1,
\* which held carol, was handled while group g2 holds bob and carol
C23_Witness ==
    /\ lastOp.op = "GROUP_UPDATE" /\ lastOp.id = "g1"
    /\ lastOp.add = <<"bob">> /\ lastOp.remove = <<"carol">>
    /\ DOMAIN groups = {"g1", "g2"}
    /\ groups["g1"].members = {"bob"}
    /\ groups["g2"].members = {"bob", "carol"}

\* a GROUP_CREATE record for a group that is in the table added a member to it
C23_WitnessCreateTwice ==
    /\ lastOp.op = "GROUP_CREATE" /\ lastOp.id = "g1" /\ lastOp.add = <<"bob">>
    /\ "g1" \in DOMAIN groups /\ groups["g1"].members = {"bob", "carol"}

\* C24 (as stated): after any group operation or GROUP_CREATE / GROUP_UPDATE
\* record that names a group id not yet in the table, one that only removes
\* members included, that group id is in the table.
C24_CreatedOnFirstReference ==
    [][(lastOp'.op \in GroupOps /\ lastOp'.id \notin DOMAIN groups)
           => lastOp'.id \in DOMAIN groups']_vars

\* the step creates the group it names when the table does not hold it:
\* create_or_update_group, group_add_members, a GROUP_CREATE record, and a
\* GROUP_UPDATE record with at least one member to add
CreatesGroup(op) ==
    \/ op.op \in {"create_or_update_group", "group_add_members", "GROUP_CREATE"}
    \/ op.op = "GROUP_UPDATE" /\ op.add # <<>>

\* C24 (amended): after create_or_update_group, group_add_members, a
\* GROUP_CREATE record or a GROUP_UPDATE record that adds at least one member,
\* naming a group id not yet in the table, that group id is in the table;
\* group_remove_members and a GROUP_UPDATE record that adds no member leave a
\* group id that is not in the table out of it, and the table unchanged.
C24_CreatedOnFirstAddOrCreate ==
    [][(lastOp'.op \in GroupOps /\ lastOp'.id \notin DOMAIN groups)
           => IF CreatesGroup(lastOp') THEN lastOp'.id \in DOMAIN groups'
              ELSE groups' = groups]_vars

\* group_add_members with an empty list named g2, and g2 is in the table,
\* the only group there, without members
C24_Witness ==
    /\ lastOp.op = "group_add_members" /\ lastOp.id = "g2" /\ lastOp.add = <<>>
    /\ DOMAIN groups = {"g2"} /\ groups["g2"].members = {}

\* a GROUP_UPDATE record that only removes bob named g1, and the table is empty
C24_WitnessRemoveOnly ==
    /\ lastOp.op = "GROUP_UPDATE" /\ lastOp.id = "g1"
    /\ lastOp.add = <<>> /\ lastOp.remove = <<"bob">>
    /\ groups = EmptyDict

----------------------------------------------------------------------------
(* Properties of the codec under SpecCodec *)

\* the key/value mapping of a dict
AsMap(kv) == [key \in {kv[k][1] : k \in 1 .. Len(kv)} |-> dict_get(kv, key, <<>>)]

\* the text holds the two-newline terminator
HasTerminator(t) == \E i \in 1 .. Len(t) - 1 : t[i] = NL /\ t[i + 1] = NL

\* r has upper-case keys, a TYPE field, and every field its TYPE requires
WellFormed(r) ==
    /\ \A k \in 1 .. Len(r) : <<r[k][1]>> = upper(<<r[k][1]>>)
    /\ dict_has(r, "TYPE")
    /\ LET type == Str(upper(dict_get(r, "TYPE", <<>>)))
       IN  type \in Kinds =>
               \A k \in 1 .. Len(KindFields[type]) : dict_has(r, KindFields[type][k])

\* C25 (as stated): parse_message(format_message(r)) gives a record whose
\* key/value mapping equals r, for every well-formed record r whose values do
\* not contain the two-newline terminator.
C25_RoundTrip ==
    ( /\ lastOp.op = "parse_message"
      /\ WellFormed(lastOp.record)
      /\ \A k \in 1 .. Len(lastOp.record) : ~HasTerminator(lastOp.record[k][2]) )
        => /\ lastOp.parsed.status = "ok"
           /\ AsMap(lastOp.parsed.kv) = AsMap(lastOp.record)

\* a value the parser gives back as it was formatted: no newline in it, no
\* carriage return at its end, no whitespace at its start
PlainValue(v) ==
    /\ \A i \in 1 .. Len(v) : v[i] # NL
    /\ v # <<>> => (v[Len(v)] # CR /\ v[1] \notin Whitespace)

\* C25 (amended): parse_message(format_message(r)) gives a record whose
\* key/value mapping equals r, for every well-formed record r with a TYPE
\* that is not empty whose values contain no newline, do not end with a
\* carriage return and do not begin with whitespace.
C25_RoundTripOfPlainValues ==
    ( /\ lastOp.op = "parse_message"
      /\ WellFormed(lastOp.record)
      /\ dict_get(lastOp.record, "TYPE", <<>>) # <<>>
      /\ \A k \in 1 .. Len(lastOp.record) : PlainValue(lastOp.record[k][2]) )
        => /\ lastOp.parsed.status = "ok"
           /\ AsMap(lastOp.parsed.kv) = AsMap(lastOp.record)

\* a PING record in lower case whose USER_ID holds a colon and a carriage
\* return and whose STATUS ends with a space came back as it was
C25_Witness ==
    /\ lastOp.op = "parse_message" /\ lastOp.status = "ok"
    /\ lastOp.record = << <<"TYPE", <<"ping">> >>, <<"USER_ID", <<"v", CR, "w">> >>,
                          <<"STATUS", <<"v", SP>> >> >>
    /\ lastOp.parsed.type = "PING"
    /\ lastOp.parsed.kv = lastOp.record

\* the keys the error of a failed parse names
NamedKeys(p) == IF p.error = "Missing TYPE" THEN {"TYPE"} ELSE Elems(p.missing)

C27_DefaultsApplied ==
    /\ (lastOp.op = "parse_message" /\ lastOp.id = "POST" /\ lastOp.without = {"TTL"})
          => /\ lastOp.parsed.status = "ok"
             /\ dict_get(lastOp.parsed.kv, "TTL", <<>>) = <<"3600">>
    /\ ( /\ lastOp.op = "parse_message"
         /\ lastOp.id \in {"DM", "TICTACTOE_INVITE", "TICTACTOE_RESULT"}
         /\ lastOp.without = {"TIMESTAMP"} )
          => /\ lastOp.parsed.status = "ok"
             /\ dict_get(lastOp.parsed.kv, "TIMESTAMP", <<>>) = <<StrOf(clock)>>

\* C28: parse_message of a LIKE record that carries no TIMESTAMP gives a
\* record of type LIKE whose fields include a TIMESTAMP.
C28_LikeGetsTimestamp ==
    (lastOp.op = "parse_message" /\ lastOp.id = "LIKE" /\ lastOp.without = {"TIMESTAMP"})
        => /\ lastOp.parsed.status = "ok"
           /\ lastOp.parsed.type = "LIKE"
           /\ dict_has(lastOp.parsed.kv, "TIMESTAMP")

----------------------------------------------------------------------------
(* Properties of _on_udp under SpecUdp *)

\* the store, the game table and the transfer table
NodeTables == <<peers, peerOrder, posts, dms, groups, games, fileBuffers, disk>>

\* the tables hold a peer, a group, a game and a transfer
TablesFilled ==
    /\ "bob" \in DOMAIN peers /\ "g1" \in DOMAIN groups
    /\ "g1" \in DOMAIN games /\ "f1" \in DOMAIN fileBuffers

\* C29: a datagram whose decode fails (no TYPE, or a required field missing)
\* is dropped: the store, the game table and the transfer table are unchanged
\* and no datagram is sent in response.
C29_UndecodableIsDropped ==
    [][ ( /\ lastOp'.op = "_on_udp"
          /\ parse_message(decode(lastOp'.text), clock).status = "ValueError" )
            => (UNCHANGED NodeTables /\ outbox' = <<>>) ]_vars

\* a POST record without TTL arrived at a node whose tables are filled
C29_Witness ==
    /\ lastOp.op = "_on_udp"
    /\ lastOp.text = format_message(RecordWithout("POST", {"TTL"}))
    /\ lastOp.status = "parse-error"
    /\ TablesFilled

\* a datagram without TYPE arrived at a node whose tables are filled
C29_WitnessNoType ==
    /\ lastOp.op = "_on_udp"
    /\ lastOp.text = format_message(<< <<"USER_ID", <<"bob">> >>, <<"STATUS", <<"hi">> >> >>)
    /\ lastOp.status = "parse-error"
    /\ TablesFilled

\* the kinds _handle has a branch for
HandledKinds ==
    { "PROFILE", "POST", "DM", "PING", "ACK", "FOLLOW", "UNFOLLOW", "LIKE",
      "TICTACTOE_INVITE", "TICTACTOE_MOVE", "TICTACTOE_RESULT", "TICTACTOE_MOVE_RESPONSE",
      "GROUP_CREATE", "GROUP_UPDATE", "GROUP_MESSAGE", "FILE_OFFER", "FILE_CHUNK",
      "FILE_RECEIVED" }

\* C30: a decoded record whose TYPE is none of the kinds the dispatcher knows
\* is ignored: handling it leaves the store, the game table and the transfer
\* table unchanged and sends nothing.
C30_UnknownKindIsIgnored ==
    [][ ( /\ lastOp'.op = "_on_udp"
          /\ parse_message(decode(lastOp'.text), clock).status = "ok"
          /\ parse_message(decode(lastOp'.text), clock).type \notin HandledKinds )
            => (UNCHANGED NodeTables /\ outbox' = <<>>) ]_vars

\* a GROUP_DELETE record for group g1 arrived at a node whose tables are
\* filled
C30_Witness ==
    /\ lastOp.op = "_on_udp"
    /\ lastOp.text = format_message(<< <<"TYPE", <<"GROUP_DELETE">> >>,
                                       <<"GROUP_ID", <<"g1">> >> >>)
    /\ lastOp.status = "unknown"
    /\ TablesFilled

----------------------------------------------------------------------------
(* Properties of the receive loop under SpecTransport *)

\* C31 as stated: while the transport is started, every datagram recvfrom
\* returns, malformed and empty ones included, is passed to the registered
\* callback exactly once, with its payload and its sender address.
C31_CallbackForEveryDatagram ==
    lastOp.op = "_recv_loop"
        => lastOp.calls = << [data |-> lastOp.data, addr |-> lastOp.addr] >>

\* C31, amended: every datagram recvfrom returns that is not empty, malformed
\* ones included, is passed to the registered callback exactly once, with its
\* payload and its sender address, and _on_udp runs on it; an empty datagram
\* is skipped without a call.
C31_CallbackForEveryNonEmptyDatagram ==
    lastOp.op = "_recv_loop"
        => IF lastOp.data # <<>>
           THEN /\ lastOp.calls = << [data |-> lastOp.data, addr |-> lastOp.addr] >>
                /\ lastOp.status # "skip"
           ELSE lastOp.calls = <<>> /\ lastOp.status = "skip"

\* a datagram of one byte that is not UTF-8 reached the callback, which could
\* not decode a record from it
C31_Witness ==
    /\ lastOp.op = "_recv_loop"
    /\ lastOp.data = <<BAD>>
    /\ Len(lastOp.calls) = 1
    /\ lastOp.status = "parse-error"

\* an empty datagram was received by a started transport
C31_WitnessEmpty ==
    /\ lastOp.op = "_recv_loop"
    /\ lastOp.data = <<>>
    /\ pc["main"] = "sleep"

\* the record of a datagram, when it decodes to a PING
IsPing(data) ==
    LET pm == parse_message(decode(data), 0)
    IN  pm.status = "ok" /\ pm.type = "PING"

\* the PROFILE record in datagram m names the node's identity, display name
\* and status
CarriesOwnProfile(m) ==
    LET pm == parse_message(m.data, 0)
    IN  /\ pm.status = "ok" /\ pm.type = "PROFILE"
        /\ dict_get(pm.kv, "USER_ID", <<>>) = <<Self>>
        /\ dict_get(pm.kv, "DISPLAY_NAME", <<>>) = display_name
        /\ dict_get(pm.kv, "STATUS", <<>>) = status

\* C32 as stated: handling a PING sends exactly one PROFILE record with the
\* node's identity, display name and status to the address (host and port)
\* the PING came from, the loop then waits for no answer but is ready for the
\* next datagram, and the store, the game table and the transfer table are
\* unchanged.
C32_PingAnsweredAtItsAddress ==
    [][ (lastOp'.op = "_recv_loop" /\ IsPing(lastOp'.data))
          => /\ Len(outbox') = 1
             /\ CarriesOwnProfile(outbox'[1])
             /\ outbox'[1].to = lastOp'.addr
             /\ (pc["rx"] = "recv" => pc'["rx"] = "recv")
             /\ UNCHANGED NodeTables ]_vars

\* C32, amended: the PROFILE record goes to the host the PING came from, at
\* the node's own port.
C32_PingAnsweredAtItsHost ==
    [][ (lastOp'.op = "_recv_loop" /\ IsPing(lastOp'.data))
          => /\ Len(outbox') = 1
             /\ CarriesOwnProfile(outbox'[1])
             /\ outbox'[1].to = <<lastOp'.addr[1], port>>
             /\ (pc["rx"] = "recv" => pc'["rx"] = "recv")
             /\ UNCHANGED NodeTables ]_vars

\* a PING that came from another port than the node's own was answered by a
\* node whose tables are filled
C32_Witness ==
    /\ lastOp.op = "_recv_loop"
    /\ IsPing(lastOp.data)
    /\ lastOp.addr[2] # port
    /\ Len(outbox) = 1
    /\ TablesFilled

----------------------------------------------------------------------------
(* Properties of is_token_like under SpecToken *)

\* t holds exactly two bars, at i and j, with a first part before i, an
\* integer numeral (a text int() takes) between them and a third part after j
ThreeParts(t) ==
    \E i, j \in 1 .. Len(t) :
        /\ i < j
        /\ \A k \in 1 .. Len(t) : t[k] = BAR <=> k \in {i, j}
        /\ i > 1
        /\ j < Len(t)
        /\ int_accepts(SubSeq(t, i + 1, j - 1))

\* C33: is_token_like(s) is true exactly when s splits on "|" into three
\* parts whose first and third parts are non-empty and whose second part is an
\* integer numeral; it is false for every other string.
C33_TokenShape ==
    lastOp.op = "is_token_like" => (lastOp.result <=> ThreeParts(lastOp.token))

\* the check accepted a token of three parts with a numeral in the middle
C33_Witness ==
    /\ lastOp.op = "is_token_like"
    /\ lastOp.token = <<"a", BAR, "7", BAR, "a">>
    /\ lastOp.result

\* the check refused a token of three parts whose third part is empty
C33_WitnessEmptyScope ==
    /\ lastOp.op = "is_token_like"
    /\ lastOp.token = <<"a", BAR, "7", BAR>>
    /\ ~lastOp.result

----------------------------------------------------------------------------
(* Properties of the moves with AUTO under SpecAuto *)

\* the symbol game assigns to player p
AssignedSymbol(game, p) == IF p = game.player1 THEN game.player1_symbol ELSE game.player2_symbol

C34_WitnessOtherSymbol ==
    /\ lastOp.op = "TICTACTOE_MOVE"
    /\ lastOp.symbol = "Z" /\ lastOp.turn = "AUTO"
    /\ lastOp.status = "ok"
    /\ lastOp.passed.symbol = "O"

\* a move with AUTO of a sender who is no player of the game was dropped
C34_WitnessNoPlayer ==
    /\ lastOp.op = "TICTACTOE_MOVE"
    /\ lastOp.from = "carol"
    /\ lastOp.status = "drop"
    /\ lastOp.id \in DOMAIN games

----------------------------------------------------------------------------
(* Properties of the game table and of the transfer table under duplicated  *)
(* and reordered records (SpecNode, SpecFile)                               *)

\* C35: for a game id in the game table, whatever records are handled (a
\* repeated TICTACTOE_INVITE and a late TICTACTOE_MOVE_RESPONSE among them),
\* the game's turn counter never decreases and a cell that holds a symbol
\* never becomes empty or changes its symbol.
C35_TurnAndCellsNeverGoBack ==
    [][ \A g \in (DOMAIN games) \cap (DOMAIN games') :
          /\ games'[g].current_turn >= games[g].current_turn
          /\ \A i \in 1 .. Len(games[g].board) :
                games[g].board[i] # ""
                    => /\ i <= Len(games'[g].board)
                       /\ games'[g].board[i] = games[g].board[i] ]_vars

\* C36: every game of the game table has a board of exactly 9 cells, each
\* empty or holding X or O, and a whose_turn that is one of its two players,
\* whatever the TICTACTOE_MOVE_RESPONSE records carried.
C36_BoardAndTurnWellFormed ==
    \A g \in DOMAIN games :
        /\ Len(games[g].board) = 9
        /\ \A i \in 1 .. Len(games[g].board) : games[g].board[i] \in {"", "X", "O"}
        /\ games[g].whose_turn \in {games[g].player1, games[g].player2}

\* C39: handling a TICTACTOE_RESULT removes a game only if that game is
\* finished locally; for a game in progress or an unknown game the game table
\* stays as it is.
C39_ResultRemovesOnlyFinished ==
    [][ lastOp'.op = "TICTACTOE_RESULT"
          => \/ lastOp'.id \in DOMAIN games /\ games[lastOp'.id].finished
             \/ games' = games ]_vars

\* C40: for a transfer id, whatever FILE_OFFER and FILE_CHUNK records are
\* handled, the set of stored chunk indices never shrinks and received_count
\* is the number of distinct stored indices.
C40_StoredChunksOnlyGrow ==
    [][ \A f \in DOMAIN fileBuffers :
          /\ f \in DOMAIN fileBuffers'
          /\ (DOMAIN fileBuffers[f].chunks) \subseteq (DOMAIN fileBuffers'[f].chunks)
          /\ fileBuffers'[f].received_count
                = Cardinality(DOMAIN fileBuffers'[f].chunks) ]_vars

\* received_count is the number of distinct stored indices
C40_CountIsNumberOfIndices ==
    \A f \in DOMAIN fileBuffers :
        fileBuffers[f].received_count = Cardinality(DOMAIN fileBuffers[f].chunks)

----------------------------------------------------------------------------
(* The winner of a game played through make_move (SpecGame) *)

\* C37: in a game whose board only make_move changes, an accepted move that
\* finishes the game with a win makes the player who moved the winner, and
\* the three cells of winning_line hold that player's symbol; on no board
\* that is reached do two triples match that are held by different symbols.
C37_WinnerMadeTheMove ==
    [][ /\ ( /\ lastOp'.op = "make_move"
             /\ lastOp'.status = "ok"
             /\ games'[lastOp'.id].finished
             /\ games'[lastOp'.id].winner \notin {"DRAW", "None"} )
            => LET G     == games'[lastOp'.id]
                   mover == games[lastOp'.id].whose_turn
               IN  /\ G.winner = mover
                   /\ \A j \in 1 .. 3 :
                         G.board[G.winning_line[j] + 1] = AssignedSymbol(G, mover)
        /\ \A g \in DOMAIN games' :
             \A t1, t2 \in MatchingTriples(games'[g].board) :
                games'[g].board[t1[1] + 1] = games'[g].board[t2[1] + 1] ]_vars

\* the invited player has just won on the first row
C37_Witness ==
    \E g \in DOMAIN games :
        /\ lastOp.op = "make_move" /\ lastOp.status = "ok"
        /\ games[g].finished
        /\ games[g].player1 # games[g].player2
        /\ games[g].winner = games[g].player2
        /\ games[g].winning_line = <<0, 1, 2>>

\* a move has just completed two triples at once
C37_WitnessTwoTriples ==
    \E g \in DOMAIN games :
        /\ lastOp.op = "make_move" /\ lastOp.status = "ok"
        /\ Cardinality(MatchingTriples(games[g].board)) = 2

----------------------------------------------------------------------------
(* Properties of repeated game records under SpecDup *)

\* C38: a second delivery of a TICTACTOE_MOVE record that was accepted before,
\* at any later point of the inbound stream and with explicit or AUTO symbol
\* and turn, places no symbol on a board, advances no turn counter and
\* creates no game.
C38_RepeatedMoveHasNoEffect ==
    [][ (lastOp'.op = "TICTACTOE_MOVE" /\ lastOp'.again)
          => \A g \in DOMAIN games' :
                /\ g \in DOMAIN games
                /\ games'[g].board = games[g].board
                /\ games'[g].current_turn = games[g].current_turn ]_vars

====
